---- MODULE Spec2Model ----
(***************************************************************************)
(* A model of the conversation-orchestration engine of the WeSign          *)
(* assistant (src/orchestrator/orchestrator_new.py): the router            *)
(* (_select_agent), the entity resolver                                    *)
(* (_preprocess_template_references, _extract_and_store_template_ids,      *)
(* _fetch_template_data_from_backend) and the request handler              *)
(* (process_message) with its per-conversation state.                      *)
(*                                                                         *)
(* Text is kept as text: a message is a TLA+ string, lower-casing,         *)
(* substring search, regular-expression matching and str.replace are       *)
(* computed character by character the way Python computes them.  A text   *)
(* that a state holds is kept as the sequence of its code points (TLC       *)
(* stores the strings of a state one byte for each character).              *)
(***************************************************************************)
EXTENDS Integers, Sequences, FiniteSets, TLC

VARIABLES
    template_ids,   \* WeSignOrchestrator.template_ids: conversation id -> ordered
                    \* dict (a sequence of [name, id] entries, in insertion order)
    conversations,  \* WeSignOrchestrator.conversations: conversation id -> turns
    client_refs,    \* WeSignMCPClient.template_ids: conversation id -> the dict
                    \* object the client was handed, named by the conversation
                    \* whose dict of the orchestrator it is (the same object)
    req,            \* the calls of process_message: position and local variables
    rt_message,     \* router run: the message handed to _select_agent
    rt_agent,       \* router run: the agent key it returned (NoAgent before)
    sb_message,     \* resolver run: the message handed to the first pass
    sb_pass,        \* resolver run: passes of substitution made so far
    sb_out,         \* resolver run: the text returned by each pass
    sb_made,        \* resolver run: replacements_made of each pass
    tool_run,       \* tool run: one request of the model for a tool, from
                    \* ForcedToolModelClient.create to the record of the call
    fn_run,         \* function run: one call of a function of the program,
                    \* its arguments and what it returned
    active_runs,    \* WeSignChatKitServer.active_runs: run id -> run entry
    responds,       \* the calls of WeSignChatKitServer.respond: the position of
                    \* each generator and the events it has yielded
    store           \* InMemoryStore: threads, messages and the clock it reads

vars == <<template_ids, conversations, client_refs, req,
          rt_message, rt_agent, sb_message, sb_pass, sb_out, sb_made, tool_run, fn_run,
          active_runs, responds, store>>

orchVars == <<conversations, client_refs, req>>

routerVars == <<rt_message, rt_agent>>
substVars == <<sb_message, sb_pass, sb_out, sb_made>>
chatVars == <<active_runs, responds, store>>

(***************************************************************************)
(* Bounds of the model                                                     *)
(***************************************************************************)
MaxReq == 2         \* calls of process_message, concurrent or one after another
MaxWords == 3       \* words of a message handed to the router
MaxPhrases == 2     \* phrases of a message handed to the entity resolver
MaxItems == 12      \* items of the raw data handed to the formatter
MaxPages == 3       \* pages handed to create_fields_for_pages
MaxCalls == 2       \* calls of respond, concurrent or one after another
MaxMessages == 3    \* calls of add_message on the store
MaxLimit == 3       \* the limit handed to get_messages

(***************************************************************************)
(* Text helpers (Python str operations)                                    *)
(***************************************************************************)
CharAt(s, i) == SubSeq(s, i, i)

\* the characters of the model's texts: U+0020..U+005F, U+0061..U+007E, the
\* Hebrew letters U+05D0..U+05EA, the maqaf U+05BE and the last code point of
\* the Hebrew block U+05FF (and the white space \t \n \r)
Chars ==
    [upper |-> "ABCDEFGHIJKLMNOPQRSTUVWXYZ",
     lower |-> "abcdefghijklmnopqrstuvwxyz",
     ascii_low |-> " !\"#$%&'()*+,-./0123456789:;<=>?@ABCDEFGHIJKLMNOPQRSTUVWXYZ[\\]^_",
     ascii_high |-> "abcdefghijklmnopqrstuvwxyz{|}~",
     hebrew |-> "אבגדהוזחטיךכלםמןנסעףפץצקרשת",
     marks |-> "־׿"]

UpperChars == {CharAt(Chars.upper, i) : i \in 1..Len(Chars.upper)}

LowerMap ==
    [c \in UpperChars |->
        CharAt(Chars.lower, CHOOSE i \in 1..Len(Chars.upper) : CharAt(Chars.upper, i) = c)]

\* str.lower() of one character: the Hebrew letters have no case
LowerChar(c) == IF c \in UpperChars THEN LowerMap[c] ELSE c

RECURSIVE lower(_)
lower(s) == IF Len(s) = 0 THEN ""
            ELSE IF Len(s) = 1 THEN LowerChar(s)
            ELSE LET half == Len(s) \div 2
                 IN  lower(SubSeq(s, 1, half)) \o lower(SubSeq(s, half + 1, Len(s)))

\* Python's `w in s` for strings
Contains(s, w) ==
    \E i \in 1..(Len(s) - Len(w) + 1) : SubSeq(s, i, i + Len(w) - 1) = w

RECURSIVE Join(_, _)
Join(ws, sep) == IF Len(ws) = 0 THEN ""
                 ELSE IF Len(ws) = 1 THEN ws[1]
                 ELSE ws[1] \o sep \o Join(Tail(ws), sep)

SeqsUpTo(S, n) == UNION {[1..k -> S] : k \in 0..n}

None == "None"      \* Python's None

OrdMap ==
    [c \in {CharAt(Chars.ascii_low, i) : i \in 1..Len(Chars.ascii_low)} |->
        31 + (CHOOSE i \in 1..Len(Chars.ascii_low) : CharAt(Chars.ascii_low, i) = c)]
    @@ [c \in {CharAt(Chars.ascii_high, i) : i \in 1..Len(Chars.ascii_high)} |->
        96 + (CHOOSE i \in 1..Len(Chars.ascii_high) : CharAt(Chars.ascii_high, i) = c)]
    @@ [c \in {CharAt(Chars.hebrew, i) : i \in 1..Len(Chars.hebrew)} |->
        1487 + (CHOOSE i \in 1..Len(Chars.hebrew) : CharAt(Chars.hebrew, i) = c)]
    @@ (CharAt(Chars.marks, 1) :> 1470) @@ (CharAt(Chars.marks, 2) :> 1535)
    @@ ("\t" :> 9) @@ ("\n" :> 10) @@ ("\r" :> 13)

\* Python's ord and chr
ord(c) == OrdMap[c]

chr(n) == IF n \in 32..95 THEN CharAt(Chars.ascii_low, n - 31)
          ELSE IF n \in 97..126 THEN CharAt(Chars.ascii_high, n - 96)
          ELSE IF n \in 1488..1514 THEN CharAt(Chars.hebrew, n - 1487)
          ELSE IF n = 1470 THEN CharAt(Chars.marks, 1)
          ELSE IF n = 1535 THEN CharAt(Chars.marks, 2)
          ELSE IF n = 9 THEN "\t"
          ELSE IF n = 10 THEN "\n"
          ELSE "\r"

\* a text as the sequence of its code points, and back
CodePoints(s) == [i \in 1..Len(s) |-> ord(CharAt(s, i))]

RECURSIVE Text(_)
Text(cp) == IF Len(cp) = 0 THEN ""
            ELSE IF Len(cp) = 1 THEN chr(cp[1])
            ELSE LET half == Len(cp) \div 2
                 IN  Text(SubSeq(cp, 1, half)) \o Text(SubSeq(cp, half + 1, Len(cp)))

(***************************************************************************)
(* Router: WeSignOrchestrator._select_agent                                *)
(***************************************************************************)
NoAgent == "not run"

CapabilityDomain == {"document", "signing", "template", "contact", "admin"}

contact_keywords ==
    <<"contact", "contacts", "address book", "create contact",
      "איש קשר", "איש הקשר", "אנשי קשר", "אנשי הקשר",
      "ספר כתובות", "ספר הכתובות", "קבוצה", "קבוצת", "הקבוצה">>

signing_keywords ==
    <<"sign", "signature", "signing", "sign document", "add signature",
      "חתימה", "לחתום", "חתימה דיגיטלית">>

template_keywords ==
    <<"template", "templates", "use template", "create template",
      "תבנית", "תבניות", "התבנית", "התבניות", "טמפלט", "טמפלטים">>

admin_keywords ==
    <<"user info", "my info", "my information", "user information", "account",
      "profile", "settings", "preferences", "משתמש", "חשבון", "פרופיל", "הגדרות">>

document_keywords ==
    <<"upload", "document", "documents", "pdf", "list documents",
      "מסמך", "מסמכים", "המסמך", "המסמכים">>

\* any(word in message_lower or word in message for word in keywords)
AnyInLowerOrRaw(keywords, message_lower, message) ==
    \E k \in 1..Len(keywords) :
        Contains(message_lower, keywords[k]) \/ Contains(message, keywords[k])

\* any(word in message_lower for word in keywords)
AnyInLower(keywords, message_lower) ==
    \E k \in 1..Len(keywords) : Contains(message_lower, keywords[k])

\* a router that tests the template keywords before the signing keywords
select_agent_template_first(message) ==
    LET message_lower == lower(message) IN
    IF AnyInLowerOrRaw(contact_keywords, message_lower, message) THEN "contact"
    ELSE IF AnyInLowerOrRaw(template_keywords, message_lower, message) THEN "template"
    ELSE IF AnyInLower(signing_keywords, message_lower) THEN "signing"
    ELSE IF AnyInLowerOrRaw(admin_keywords, message_lower, message) THEN "admin"
    ELSE IF AnyInLowerOrRaw(document_keywords, message_lower, message) THEN "document"
    ELSE "admin"

\* a router whose last rule is missing: it falls off the end (Python's None)
select_agent_no_default(message) ==
    LET message_lower == lower(message) IN
    IF AnyInLowerOrRaw(contact_keywords, message_lower, message) THEN "contact"
    ELSE IF AnyInLower(signing_keywords, message_lower) THEN "signing"
    ELSE IF AnyInLowerOrRaw(template_keywords, message_lower, message) THEN "template"
    ELSE IF AnyInLowerOrRaw(admin_keywords, message_lower, message) THEN "admin"
    ELSE IF AnyInLowerOrRaw(document_keywords, message_lower, message) THEN "document"
    ELSE None

select_agent(message) ==
    LET message_lower == lower(message) IN
    IF AnyInLowerOrRaw(contact_keywords, message_lower, message) THEN "contact"
    ELSE IF AnyInLower(signing_keywords, message_lower) THEN "signing"
    ELSE IF AnyInLowerOrRaw(template_keywords, message_lower, message) THEN "template"
    ELSE IF AnyInLowerOrRaw(admin_keywords, message_lower, message) THEN "admin"
    ELSE IF AnyInLowerOrRaw(document_keywords, message_lower, message) THEN "document"
    ELSE "admin"

(***************************************************************************)
(* Python dicts keep insertion order: a dict is a sequence of entries       *)
(* [name, id] with distinct names                                          *)
(***************************************************************************)
DictKeys(d) == {d[i].name : i \in 1..Len(d)}

DictGet(d, n) == d[CHOOSE i \in 1..Len(d) : d[i].name = n].id

\* d[n] = v: an existing key keeps its place, a new key goes last
DictSet(d, n, v) ==
    IF n \in DictKeys(d)
    THEN [i \in 1..Len(d) |-> IF d[i].name = n THEN [name |-> n, id |-> v] ELSE d[i]]
    ELSE Append(d, [name |-> n, id |-> v])

\* d.update(other)
RECURSIVE DictUpdate(_, _)
DictUpdate(d, other) ==
    IF Len(other) = 0 THEN d
    ELSE DictUpdate(DictSet(d, other[1].name, other[1].id), Tail(other))

(***************************************************************************)
(* Regular expressions of re, as far as the resolver's patterns use them:   *)
(* a pattern is a sequence of tokens, \b, a literal, \s+ and ["']?, matched *)
(* with re.IGNORECASE (on the lower-cased text) by backtracking, greedy     *)
(* choices first                                                           *)
(***************************************************************************)
\* \w of a str pattern, \s, and the quotes of ["']
CharClass ==
    LET WordChars == Chars.lower \o Chars.upper \o "0123456789_" \o Chars.hebrew
    IN  [word |-> {CharAt(WordChars, i) : i \in 1..Len(WordChars)},
         space |-> {" ", "\t", "\n", "\r"},
         quote |-> {"\"", "'"}]

IsWordAt(s, p) == p >= 1 /\ p <= Len(s) /\ CharAt(s, p) \in CharClass.word

\* \b before the character at p (p = Len(s) + 1: at the end of the text)
Boundary(s, p) == IsWordAt(s, p - 1) # IsWordAt(s, p)

Lit(w) == [t |-> "lit", s |-> lower(w)]

\* the tokens of the patterns: \b, \s+, ["']?, and the words they spell out
\* (a word makes the token Lit(word))
Tok ==
    [b |-> [t |-> "b", s |-> ""], sp |-> [t |-> "sp", s |-> ""],
     q |-> [t |-> "q", s |-> ""],
     template |-> "template", from |-> "from", named |-> "named",
     my |-> "my", the |-> "the",
     tavnit |-> "תבנית", mitavnit |-> "מתבנית"]

RECURSIVE SpaceRun(_, _)
SpaceRun(s, p) ==
    IF p <= Len(s) /\ CharAt(s, p) \in CharClass.space THEN 1 + SpaceRun(s, p + 1) ELSE 0

\* the end (the position after the last matched character) of the match of
\* tokens k.. of toks at position p of the lower-cased text ls, 0 if none
RECURSIVE MatchFrom(_, _, _, _)
MatchFrom(toks, k, ls, p) ==
    IF k > Len(toks) THEN p
    ELSE LET tk == toks[k] IN
         IF tk.t = "b" THEN
             IF Boundary(ls, p) THEN MatchFrom(toks, k + 1, ls, p) ELSE 0
         ELSE IF tk.t = "lit" THEN
             IF /\ p + Len(tk.s) - 1 <= Len(ls)
                /\ SubSeq(ls, p, p + Len(tk.s) - 1) = tk.s
             THEN MatchFrom(toks, k + 1, ls, p + Len(tk.s))
             ELSE 0
         ELSE IF tk.t = "q" THEN
             LET taken == IF p <= Len(ls) /\ CharAt(ls, p) \in CharClass.quote
                          THEN MatchFrom(toks, k + 1, ls, p + 1)
                          ELSE 0
             IN  IF taken # 0 THEN taken ELSE MatchFrom(toks, k + 1, ls, p)
         ELSE \* "sp": the longest run of white space first
             LET ok == {j \in 1..SpaceRun(ls, p) : MatchFrom(toks, k + 1, ls, p + j) # 0}
             IN  IF ok = {} THEN 0
                 ELSE MatchFrom(toks, k + 1, ls, p + (CHOOSE j \in ok : \A i \in ok : i <= j))

\* the first match of re.finditer(pattern, text, re.IGNORECASE) at or after
\* position from: <<start, end>>, <<0, 0>> if there is none
FirstMatch(toks, text, from) ==
    LET ls == lower(text)
        starts == {p \in from..(Len(text) + 1) : MatchFrom(toks, 1, ls, p) # 0}
    IN  IF starts = {} THEN <<0, 0>>
        ELSE LET p == CHOOSE q \in starts : \A r \in starts : q <= r
             IN  <<p, MatchFrom(toks, 1, ls, p)>>

\* str.replace(old, new), old not empty
RECURSIVE StrReplace(_, _, _)
StrReplace(s, old, new) ==
    IF Len(s) < Len(old) THEN s
    ELSE IF SubSeq(s, 1, Len(old)) = old
         THEN new \o StrReplace(SubSeq(s, Len(old) + 1, Len(s)), old, new)
         ELSE CharAt(s, 1) \o StrReplace(SubSeq(s, 2, Len(s)), old, new)

(***************************************************************************)
(* Entity resolver: WeSignOrchestrator._preprocess_template_references     *)
(***************************************************************************)
\* the patterns built for one template name (re.escape makes it a literal)
Patterns(template_name) ==
    LET N == Lit(template_name)
    IN  <<  <<Tok.b, Lit(Tok.template), Tok.sp, Tok.q, N, Tok.q, Tok.b>>,
            <<Tok.b, Lit(Tok.from), Tok.sp, Lit(Tok.template), Tok.sp, Tok.q, N, Tok.q, Tok.b>>,
            <<Tok.b, Lit(Tok.template), Tok.sp, Lit(Tok.named), Tok.sp, Tok.q, N, Tok.q, Tok.b>>,
            <<Tok.b, Lit(Tok.my), Tok.sp, Tok.q, N, Tok.q, Tok.sp, Lit(Tok.template), Tok.b>>,
            <<Tok.b, Lit(Tok.the), Tok.sp, Tok.q, N, Tok.q, Tok.sp, Lit(Tok.template), Tok.b>>,
            <<Tok.b, Lit(Tok.tavnit), Tok.sp, Tok.q, N, Tok.q, Tok.b>>,
            <<Tok.b, Lit(Tok.mitavnit), Tok.sp, Tok.q, N, Tok.q, Tok.b>>  >>

NumPatterns == Len(Patterns(""))

\* the body of `for match in matches:` for the match m of pattern k: the
\* state st is [text: preprocessed, made: replacements_made]; an entry of made
\* also keeps the number of the pattern that made it
ReplaceMatch(st, template_name, template_id, k, m) ==
    LET original_text == SubSeq(st.text, m[1], m[2] - 1)
        replacement == StrReplace(original_text, template_name, template_id)
    IN  [text |-> SubSeq(st.text, 1, m[1] - 1) \o replacement
                    \o SubSeq(st.text, m[2], Len(st.text)),
         made |-> Append(st.made, [name |-> template_name, id |-> template_id,
                                   pattern |-> k])]

\* a loop without the break: every match of the pattern is replaced, each
\* searched after the replacement of the one before
RECURSIVE ReplaceEveryMatch(_, _, _, _, _)
ReplaceEveryMatch(st, template_name, template_id, k, from) ==
    LET m == FirstMatch(Patterns(template_name)[k], st.text, from)
    IN  IF m[1] = 0 THEN st
        ELSE LET next == ReplaceMatch(st, template_name, template_id, k, m)
             IN  ReplaceEveryMatch(next, template_name, template_id, k,
                                   m[2] + Len(next.text) - Len(st.text))

ApplyPattern_no_break(st, template_name, template_id, k) ==
    ReplaceEveryMatch(st, template_name, template_id, k, 1)

\* `for pattern in patterns:` for pattern k: the first match is replaced and
\* the break leaves the loop over the matches
ApplyPattern(st, template_name, template_id, k) ==
    LET m == FirstMatch(Patterns(template_name)[k], st.text, 1)
    IN  IF m[1] = 0 THEN st
        ELSE ReplaceMatch(st, template_name, template_id, k, m)

RECURSIVE ApplyPatterns(_, _, _, _)
ApplyPatterns(st, template_name, template_id, k) ==
    IF k > NumPatterns THEN st
    ELSE ApplyPatterns(ApplyPattern(st, template_name, template_id, k),
                       template_name, template_id, k + 1)

\* `for template_name, template_id in template_ids.items():` from entry i on
RECURSIVE ApplyNames(_, _, _)
ApplyNames(st, mapping, i) ==
    IF i > Len(mapping) THEN st
    ELSE ApplyNames(ApplyPatterns(st, mapping[i].name, mapping[i].id, 1), mapping, i + 1)

\* a pass that returns a message without a mapping in lower case
PreprocessPass_lowered(message, conversation_id) ==
    IF conversation_id \notin DOMAIN template_ids
    THEN [text |-> lower(message), made |-> <<>>]
    ELSE IF Len(template_ids[conversation_id]) = 0 THEN [text |-> message, made |-> <<>>]
    ELSE ApplyNames([text |-> message, made |-> <<>>], template_ids[conversation_id], 1)

\* the pass over the message: [text, made]
PreprocessPass(message, conversation_id) ==
    IF conversation_id \notin DOMAIN template_ids THEN [text |-> message, made |-> <<>>]
    ELSE IF Len(template_ids[conversation_id]) = 0 THEN [text |-> message, made |-> <<>>]
    ELSE ApplyNames([text |-> message, made |-> <<>>], template_ids[conversation_id], 1)

preprocess_template_references(message, conversation_id) ==
    PreprocessPass(message, conversation_id).text

(***************************************************************************)
(* Request handling: WeSignOrchestrator.process_message and its helpers    *)
(***************************************************************************)
\* hebrew_chars = set(range(0x0590, 0x05FF)): 0x0590 = 1424, 0x05FF = 1535
hebrew_chars == 1424..1534

detect_hebrew(text) == \E i \in 1..Len(text) : ord(CharAt(text, i)) \in hebrew_chars

\* file_info += f"- {f['fileName']} (at {f['filePath']})\n" for every file
RECURSIVE FileLines(_)
FileLines(files) ==
    IF Len(files) = 0 THEN ""
    ELSE "- " \o files[1].fileName \o " (at " \o files[1].filePath \o ")\n"
              \o FileLines(Tail(files))

\* full_message before the substitution (files = None is the empty list: the
\* code treats the two alike)
WithFileContext(message, files) ==
    IF Len(files) > 0
    THEN message \o "\n\nAttached files:\n" \o FileLines(files)
    ELSE message

\* the records made of the FunctionCalls of one ToolCallRequestEvent
ToolCallRecords(calls) ==
    [i \in 1..Len(calls) |->
        [tool |-> calls[i].name, action |-> "execute",
         parameters |-> calls[i].arguments, result |-> "completed"]]

\* result.messages is a sequence of [type, content]
RECURSIVE extract_tool_calls(_)
extract_tool_calls(messages) ==
    IF Len(messages) = 0 THEN <<>>
    ELSE (IF messages[1].type = "ToolCallRequestEvent"
          THEN ToolCallRecords(messages[1].content) ELSE <<>>)
         \o extract_tool_calls(Tail(messages))

\* the content of the last message (the contents of the model are no JSON
\* documents, so json.loads fails and the content is returned as it is)
extract_response(messages) ==
    IF Len(messages) = 0 THEN "Task completed successfully."
    ELSE messages[Len(messages)].content

\* ast.literal_eval on the raw responses of the model: a dict (a function
\* from its keys), another literal, or an exception
PyDict ==
    [ErrorDenied |-> ("error" :> "permission denied") @@ ("success" :> FALSE),
     FailedOnly |-> ("success" :> FALSE),
     Templates |-> ("templates" :> <<"NDA">>),
     Documents |-> ("documents" :> <<"contract.pdf">>)]

RawText ==
    [ErrorDenied |-> "{'error': 'permission denied', 'success': False}",
     FailedOnly |-> "{'success': False}",
     Templates |-> "{'templates': ['NDA']}",
     Documents |-> "{'documents': ['contract.pdf']}",
     List |-> "['NDA']",
     ToolError |-> "Error: Missing required parameter: documentId",
     Plain |-> "Document sent"]

literal_eval(text) ==
    CASE text = RawText.ErrorDenied -> [kind |-> "dict", val |-> PyDict.ErrorDenied]
      [] text = RawText.FailedOnly -> [kind |-> "dict", val |-> PyDict.FailedOnly]
      [] text = RawText.Templates -> [kind |-> "dict", val |-> PyDict.Templates]
      [] text = RawText.Documents -> [kind |-> "dict", val |-> PyDict.Documents]
      [] text = RawText.List -> [kind |-> "list", val |-> <<"NDA">>]
      [] /\ Len(text) > 31
         /\ SubSeq(text, 1, 11) = "{'error': '"
         /\ SubSeq(text, Len(text) - 19, Len(text)) = "', 'success': False}"
         /\ ~Contains(SubSeq(text, 12, Len(text) - 20), "'")
            -> [kind |-> "dict",
                val |-> ("error" :> SubSeq(text, 12, Len(text) - 20)) @@ ("success" :> FALSE)]
      [] OTHER -> [kind |-> "raise", val |-> <<>>]

\* CHECK FOR ERRORS IN TOOL EXECUTION: [has_error, error_message]
CheckToolError(raw_response) ==
    LET parsed == literal_eval(raw_response) IN
    IF parsed.kind = "raise" THEN
        IF \/ Contains(lower(raw_response), "error")
           \/ Contains(lower(raw_response), "failed")
        THEN [has_error |-> TRUE, error_message |-> raw_response]
        ELSE [has_error |-> FALSE, error_message |-> None]
    ELSE IF parsed.kind = "dict" THEN
        IF \/ "error" \in DOMAIN parsed.val
           \/ ("success" \in DOMAIN parsed.val /\ parsed.val["success"] = FALSE)
        THEN [has_error |-> TRUE,
              error_message |-> IF "error" \in DOMAIN parsed.val
                                THEN parsed.val["error"]
                                ELSE "Tool execution failed"]
        ELSE [has_error |-> FALSE, error_message |-> None]
    ELSE [has_error |-> FALSE, error_message |-> None]

\* a prefix that does not follow the language of the message
ErrorPrefix_english_only(message) == "Error: "

ErrorPrefix(message) == IF detect_hebrew(message) THEN "שגיאה: " ELSE "Error: "

\* lines 571-573: the first line of the reflection prompt
language_instruction(message) ==
    IF detect_hebrew(message) THEN "עליך לענות בעברית" ELSE "You must respond in English"

\* _fetch_template_data_from_backend: the template_map built from what the
\* backend answered; every failure gives the empty dict
RECURSIVE TemplateMapOf(_)
TemplateMapOf(templates) ==
    IF Len(templates) = 0 THEN <<>>
    ELSE LET t == templates[Len(templates)]
             before == TemplateMapOf(SubSeq(templates, 1, Len(templates) - 1))
         IN  IF t.name # None /\ t.name # "" /\ t.templateId # None /\ t.templateId # ""
             THEN DictSet(before, t.name, t.templateId)
             ELSE before

fetch_template_data_from_backend(answer) ==
    IF answer.kind = "ok" THEN TemplateMapOf(answer.templates) ELSE <<>>

template_tools == {"wesign_list_templates", "wesign_get_template", "wesign_create_template"}

\* a check that takes every tool call for a template call
is_template_call_any(tool_calls) == Len(tool_calls) > 0

\* a check that takes every listing for a template call
is_template_call_listing(tool_calls) ==
    \E i \in 1..Len(tool_calls) :
        tool_calls[i].tool \in {"wesign_list_templates", "wesign_list_documents"}

is_template_call(tool_calls) ==
    \E i \in 1..Len(tool_calls) : tool_calls[i].tool \in template_tools

\* a store that appends the user turn alone
StoreConversation_user_only(log, message, response_text, tool_calls) ==
    log \o << [role |-> "user", content |-> message] >>

\* a store that keeps the fetched dict in place of the cached one
StoreTemplateMap_replace(cached, template_map) == template_map

\* a store that empties the cached dict when nothing was fetched
StoreTemplateMap_drop_on_empty(cached, template_map) ==
    IF Len(template_map) > 0 THEN DictUpdate(cached, template_map) ELSE <<>>

\* `if template_map: self.template_ids[conversation_id].update(template_map)`
StoreTemplateMap(cached, template_map) ==
    IF Len(template_map) > 0 THEN DictUpdate(cached, template_map) ELSE cached

\* the dict returned on the normal path
NormalResult(response_text, conversation_id, tool_calls, agent_choice, files) ==
    [response |-> response_text,
     conversation_id |-> conversation_id,
     tool_calls |-> tool_calls,
     metadata |-> [agent |-> agent_choice,
                   files_count |-> Len(files)]]

\* a store that keeps the turns of the last call alone
StoreConversation_last_call(log, message, response_text, tool_calls) ==
    << [role |-> "user", content |-> message],
       [role |-> "assistant", content |-> response_text,
        tool_calls |-> tool_calls] >>

\* a store that puts the turns of a call before the turns of the calls that
\* returned before it
StoreConversation_at_front(log, message, response_text, tool_calls) ==
    << [role |-> "user", content |-> message],
       [role |-> "assistant", content |-> response_text,
        tool_calls |-> tool_calls] >> \o log

\* # Store conversation
StoreConversation(log, message, response_text, tool_calls) ==
    log \o << [role |-> "user", content |-> message],
              [role |-> "assistant", content |-> response_text,
               tool_calls |-> tool_calls] >>

\* get_conversation_history
get_conversation_history(conversation_id) ==
    IF conversation_id \in DOMAIN conversations THEN conversations[conversation_id]
    ELSE <<>>

(***************************************************************************)
(* The router on its own: every message of RouterMessages is classified    *)
(***************************************************************************)
RouterWords ==
    {"Contacts", "address", "book", "Design", "template", "account",
     "DOCUMENTS", "hello", "קשר", "איש", "התבניות", "לחתום"}

RouterMessages == {Join(ws, " ") : ws \in SeqsUpTo(RouterWords, MaxWords)}

RouterInit ==
    /\ rt_message \in {CodePoints(m) : m \in RouterMessages}
    /\ rt_agent = NoAgent
    /\ template_ids = <<>>
    /\ conversations = <<>> /\ client_refs = <<>> /\ req = <<>>
    /\ sb_message = <<>> /\ sb_pass = 0 /\ sb_out = <<>> /\ sb_made = <<>>
    /\ tool_run = <<>> /\ fn_run = <<>>
    /\ active_runs = <<>> /\ responds = <<>> /\ store = <<>>

Classify ==
    /\ rt_agent = NoAgent
    /\ rt_agent' = select_agent(Text(rt_message))
    /\ UNCHANGED <<rt_message, template_ids, orchVars, substVars, tool_run, fn_run, chatVars>>

RouterNext == Classify

SpecRouter == RouterInit /\ [][RouterNext]_vars

(***************************************************************************)
(* Claims about the router                                                 *)
(***************************************************************************)
\* a keyword occurs in a message: case-insensitively for the latin script, so
\* it is looked for in the lower-cased message
Occurs(keyword, lowered) == Contains(lowered, keyword)

KeywordsOf(d) ==
    CASE d = "contact" -> contact_keywords
      [] d = "signing" -> signing_keywords
      [] d = "template" -> template_keywords
      [] d = "admin" -> admin_keywords
      [] d = "document" -> document_keywords

DomainMatches(d, lowered) ==
    \E k \in 1..Len(KeywordsOf(d)) : Occurs(KeywordsOf(d)[k], lowered)

Precedence == <<"contact", "signing", "template", "admin", "document">>

MatchingRanks(message) ==
    LET lowered == lower(message)
    IN  {i \in 1..Len(Precedence) : DomainMatches(Precedence[i], lowered)}

Classified == rt_agent # NoAgent

\* C1: the domains are tested in the order contact > signing > template >
\* admin keywords > document, and the first domain with a keyword occurring in
\* the message is returned: a message with keywords of several domains is
\* routed to the earliest of them.
C1_FirstMatchWins ==
    (Classified /\ MatchingRanks(Text(rt_message)) # {}) =>
        \E i \in MatchingRanks(Text(rt_message)) :
            /\ rt_agent = Precedence[i]
            /\ \A j \in MatchingRanks(Text(rt_message)) : i <= j

\* a classified message with keywords of three domains, none of them the
\* first of the order
C1_Witness ==
    /\ Classified
    /\ Cardinality(MatchingRanks(Text(rt_message))) >= 3
    /\ 1 \notin MatchingRanks(Text(rt_message))
    /\ rt_agent = "signing"

\* C2: the router is total: it returns one of the five domains for every
\* message, and admin for a message without any keyword.
C2_TotalWithDefault ==
    Classified =>
        /\ rt_agent \in CapabilityDomain
        /\ (MatchingRanks(Text(rt_message)) = {} => rt_agent = "admin")

\* a classified non-empty message without any keyword
C2_Witness ==
    /\ Classified
    /\ Len(rt_message) > 0
    /\ MatchingRanks(Text(rt_message)) = {}
    /\ rt_agent = "admin"

(***************************************************************************)
(* The entity resolver on its own: passes of substitution over a message    *)
(* of conversation SubstConv, whose mapping is one of SubstMappings or      *)
(* absent                                                                  *)
(***************************************************************************)
SubstConv == "c1"

Entry(n, i) == [name |-> n, id |-> i]

SubstMappings ==
    { <<>>,
      <<Entry("NDA", "9f-01")>>,
      <<Entry("1234", "1234-ab")>>,
      <<Entry("NDA", "9f-01"), Entry("1234", "1234-ab")>> }

SubstStores == {<<>>} \cup {(SubstConv :> m) : m \in SubstMappings}

SubstPhrases ==
    {"template NDA", "from template 'NDA'", "template named 1234",
     "my 1234 template", "the NDA template", "תבנית NDA", "מתבנית 1234",
     "template nda", "use"}

SubstMessages == {Join(ws, " ") : ws \in SeqsUpTo(SubstPhrases, MaxPhrases)}

SubstInit ==
    /\ template_ids \in SubstStores
    /\ sb_message \in {CodePoints(m) : m \in SubstMessages}
    /\ sb_pass = 0 /\ sb_out = <<>> /\ sb_made = <<>>
    /\ conversations = <<>> /\ client_refs = <<>> /\ req = <<>>
    /\ rt_message = <<>> /\ rt_agent = NoAgent
    /\ tool_run = <<>> /\ fn_run = <<>>
    /\ active_runs = <<>> /\ responds = <<>> /\ store = <<>>

\* the text handed to pass i
PassInput(i) == IF i = 1 THEN sb_message ELSE sb_out[i - 1]

DoPass ==
    /\ LET r == PreprocessPass(Text(PassInput(sb_pass + 1)), SubstConv)
       IN  /\ sb_out' = Append(sb_out, CodePoints(r.text))
           /\ sb_made' = Append(sb_made, r.made)
    /\ sb_pass' = sb_pass + 1
    /\ UNCHANGED <<sb_message, template_ids, orchVars, routerVars, tool_run, fn_run, chatVars>>

\* substitute(m)
Substitute == sb_pass = 0 /\ DoPass

\* substitute(substitute(m))
SubstituteAgain == sb_pass = 1 /\ DoPass

SubstNext == Substitute \/ SubstituteAgain

SpecSubst == SubstInit /\ [][SubstNext]_vars

(***************************************************************************)
(* Claims about the entity resolver                                        *)
(***************************************************************************)
\* C3: substitution is idempotent: a second pass over the text returned by a
\* pass returns that text unchanged, whatever the message and the mapping.
C3_Idempotent ==
    \A i \in 2..sb_pass : sb_out[i] = sb_out[i - 1]

\* the replacements a pass made for one name
MadeFor(i, n) == {j \in 1..Len(sb_made[i]) : sb_made[i][j].name = n}

PassNames(i) == {sb_made[i][j].name : j \in 1..Len(sb_made[i])}

\* C4: in one pass each friendly name is replaced at most once, also when
\* several patterns match occurrences of it.
C4_OncePerPass ==
    \A i \in 1..sb_pass : \A n \in PassNames(i) : Cardinality(MadeFor(i, n)) <= 1

\* C4 as amended: in one pass each pattern replaces at most one occurrence of
\* a friendly name, its first match.
C4_OncePerPattern ==
    \A i \in 1..sb_pass : \A n \in PassNames(i) :
        \A j1, j2 \in MadeFor(i, n) :
            sb_made[i][j1].pattern = sb_made[i][j2].pattern => j1 = j2

\* a pass that left a match of a pattern in place after replacing the first
\* match of that pattern for the same name
C4_Witness ==
    /\ sb_pass >= 1
    /\ \E n \in PassNames(1) :
        /\ Cardinality(MadeFor(1, n)) = 1
        /\ \E j \in MadeFor(1, n) :
              FirstMatch(Patterns(n)[sb_made[1][j].pattern], Text(sb_out[1]), 1)[1] # 0
    /\ Text(sb_message) = "template NDA template NDA"

\* C5: when a pattern matches a cached name, the result holds the identifier
\* in place of that occurrence of the name (matched without regard to case)
\* and the text around it is unchanged; stated for the passes with one match.
C5_ReplacedInPlace ==
    \A i \in 1..sb_pass :
        Len(sb_made[i]) = 1 =>
            LET n == sb_made[i][1].name
                id == sb_made[i][1].id
                in == Text(PassInput(i))
            IN  \E p \in 1..(Len(in) - Len(n) + 1) :
                    /\ lower(SubSeq(in, p, p + Len(n) - 1)) = lower(n)
                    /\ Text(sb_out[i]) = SubSeq(in, 1, p - 1) \o id
                                      \o SubSeq(in, p + Len(n), Len(in))

(***************************************************************************)
(* The request handler: MaxReq calls of process_message, numbered in the    *)
(* order in which they are made, which run concurrently (a call gives way   *)
(* to the others at each await: the agent run, the backend fetch, the       *)
(* formatter run)                                                          *)
(***************************************************************************)
Requests == 1..MaxReq

\* what a caller passes: message, conversation_id (None or the empty string:
\* a new conversation) and files
RequestInputs ==
    { [message |-> "use template NDA", conversation_id |-> "", files |-> <<>>],
      [message |-> "תבנית NDA", conversation_id |-> "c1", files |-> <<>>],
      [message |-> "my profile", conversation_id |-> "c1", files |-> <<>>],
      [message |-> "hello", conversation_id |-> None,
       files |-> <<[fileName |-> "contacts.pdf", filePath |-> "/tmp/f1"]>>] }

\* f"conv-{user_id}-{datetime.now().timestamp()}": one new id for each call
GeneratedId(r) == "conv-u1-" \o ToString(r)

FunctionCall(name) == [name |-> name, arguments |-> <<>>]

\* the messages of the result of a run that called the tools `calls` and
\* ended with the tool output `raw`
ToolRun(task, calls, raw) ==
    << [type |-> "TextMessage", content |-> task],
       [type |-> "ToolCallRequestEvent", content |-> calls],
       [type |-> "ToolCallExecutionEvent", content |-> <<raw>>],
       [type |-> "ToolCallSummaryMessage", content |-> raw] >>

\* the messages of the result of a run that called no tool
TextRun(task, answer) ==
    << [type |-> "TextMessage", content |-> task],
       [type |-> "TextMessage", content |-> answer] >>

\* the runs of an agent with tools: the tools called and the tool output the
\* run ended with (a dict of execute_tool as FunctionTool prints it, or the
\* text of the ValueError of tool_wrapper)
ToolRuns ==
    { [calls |-> <<FunctionCall("wesign_list_templates")>>, raw |-> RawText.Templates],
      [calls |-> <<FunctionCall("wesign_list_templates")>>, raw |-> RawText.ErrorDenied],
      [calls |-> <<FunctionCall("wesign_list_documents")>>, raw |-> RawText.Documents],
      [calls |-> <<FunctionCall("wesign_list_documents")>>, raw |-> RawText.FailedOnly],
      [calls |-> <<FunctionCall("wesign_send_simple_document")>>, raw |-> RawText.ToolError] }

\* runs of an admin agent that was given the tools of the other agents
AgentAnswers_admin_with_tools(agent_choice, task) ==
    {[kind |-> "raise", e |-> "Connection error.", messages |-> <<>>]}
    \cup {[kind |-> "result", e |-> "", messages |-> TextRun(task, "How can I help?")]}
    \cup {[kind |-> "result", e |-> "", messages |-> ToolRun(task, t.calls, t.raw)] :
                t \in ToolRuns}

\* what agent.run can give: an exception, or a result; the admin agent has
\* no tools (the task is handed over as the call holds it, in code points)
AgentAnswers(agent_choice, task) ==
    {[kind |-> "raise", e |-> "Connection error.", messages |-> <<>>]}
    \cup {[kind |-> "result", e |-> "", messages |-> TextRun(task, "How can I help?")]}
    \cup (IF agent_choice = "admin" THEN {}
          ELSE {[kind |-> "result", e |-> "", messages |-> ToolRun(task, t.calls, t.raw)] :
                    t \in ToolRuns})

Template(n, i) == [name |-> n, templateId |-> i]

\* what the backend can answer to the login and the listing
BackendAnswers ==
    { [kind |-> "no_credentials", templates |-> <<>>],
      [kind |-> "login_http_error", templates |-> <<>>],
      [kind |-> "no_token", templates |-> <<>>],
      [kind |-> "listing_http_error", templates |-> <<>>],
      [kind |-> "exception", templates |-> <<>>],
      [kind |-> "ok", templates |-> <<>>],
      [kind |-> "ok", templates |-> <<Template("NDA", "9f-01")>>],
      [kind |-> "ok", templates |-> <<Template("1234", "1234-ab"), Template("NDA", "7c-22"),
                                      Template("Lease", None)>>] }

\* what the log tells of a fetch: "ok" after `Fetched n template IDs`, "failed"
\* after an error line
RefreshOutcome(b) == IF b.kind = "ok" THEN "ok" ELSE "failed"

\* what formatter_agent.run can give
FormatterAnswers(task) ==
    { [kind |-> "raise", e |-> "Rate limit reached.", messages |-> <<>>],
      [kind |-> "result", e |-> "", messages |-> TextRun(task, "Here is what I found.")] }

\* what a table of <<argument, value>> pairs holds for x, or else the value
\* computed now
Lookup(table, x, computed) ==
    LET held == {p \in table : p[1] = x}
    IN  IF held # {} THEN (CHOOSE p \in held : TRUE)[2] ELSE computed

\* CheckToolError of the tool outputs above and ErrorPrefix of the messages
\* above, computed once for all the calls: tables of <<argument, value>>
CheckedToolErrors == {<<t.raw, CheckToolError(t.raw)>> : t \in ToolRuns}

ErrorPrefixes ==
    {<<CodePoints(inp.message), ErrorPrefix(inp.message)>> : inp \in RequestInputs}

\* a handler that chooses the agent for the message as it came, before the
\* file context and the substitution
Prepared_routes_first(inp, mapping) ==
    LET message == WithFileContext(inp.message, inp.files)
        full_message == IF Len(mapping) = 0 THEN message
                        ELSE ApplyNames([text |-> message, made |-> <<>>], mapping, 1).text
    IN  [message |-> CodePoints(inp.message),
         full_message |-> CodePoints(full_message),
         agent_choice |-> select_agent(inp.message)]

\* lines 478-490 for one input and the mapping of its conversation: the
\* message, the message with its file context, substituted, and the agent
\* chosen for it
Prepared(inp, mapping) ==
    LET message == WithFileContext(inp.message, inp.files)
        full_message == IF Len(mapping) = 0 THEN message
                        ELSE ApplyNames([text |-> message, made |-> <<>>], mapping, 1).text
    IN  [message |-> CodePoints(inp.message),
         full_message |-> CodePoints(full_message),
         agent_choice |-> select_agent(full_message)]

\* Prepared of the inputs above with the dicts a mapping can be (the empty
\* dict and what the answers of the backend make of it), computed once: a
\* table of <<(<<inp, mapping>>), Prepared(inp, mapping)>>
PreparedInputs ==
    LET RECURSIVE MappingsFrom(_)
        MappingsFrom(S) ==
            LET T == S \cup {StoreTemplateMap(m, fetch_template_data_from_backend(b)) :
                                m \in S, b \in BackendAnswers}
            IN  IF T = S THEN S ELSE MappingsFrom(T)
    IN  {<<(<<inp, m>>), Prepared(inp, m)>> :
            inp \in RequestInputs, m \in MappingsFrom({<<>>})}

\* _select_agent of the substituted texts above, computed once: a table of
\* <<full_message, agent>>
RoutedTexts ==
    {<<p[2].full_message, select_agent(Text(p[2].full_message))>> : p \in PreparedInputs}

\* CodePoints of the answers of the agents and of the error responses,
\* computed once
StoredResponses ==
    LET answers == {[kind |-> a.kind, e |-> a.e, text |-> extract_response(a.messages)] :
                        a \in AgentAnswers("document", <<>>)}
                   \cup {[kind |-> a.kind, e |-> a.e, text |-> extract_response(a.messages)] :
                        a \in FormatterAnswers("")}
        texts == {a.text : a \in {b \in answers : b.kind = "result"}}
                 \cup {"I encountered an error: " \o a.e \o ". Please try again." :
                            a \in {b \in answers : b.kind = "raise"}}
                 \cup {p[2] \o c[2].error_message :
                            p \in ErrorPrefixes, c \in {d \in CheckedToolErrors : d[2].has_error}}
    IN  {<<t, CodePoints(t)>> : t \in texts}

\* an error dict whose response explains nothing
ErrorResult_blank(conversation_id, e) ==
    [response |-> <<>>,
     conversation_id |-> conversation_id,
     tool_calls |-> <<>>,
     metadata |-> [error |-> e]]

\* an error dict that carries an id made for it
ErrorResult_other_id(conversation_id, e) ==
    [response |-> LET text == "I encountered an error: " \o e \o ". Please try again."
                  IN  Lookup(StoredResponses, text, CodePoints(text)),
     conversation_id |-> "conv-u1-0",
     tool_calls |-> <<>>,
     metadata |-> [error |-> e]]

\* the dict returned by `except Exception as e`
ErrorResult(conversation_id, e) ==
    [response |-> LET text == "I encountered an error: " \o e \o ". Please try again."
                  IN  Lookup(StoredResponses, text, CodePoints(text)),
     conversation_id |-> conversation_id,
     tool_calls |-> <<>>,
     metadata |-> [error |-> e]]

IdleRequest ==
    [pc |-> "idle", message |-> <<>>, supplied_id |-> None,
     conversation_id |-> None, files |-> <<>>,
     full_message |-> <<>>, agent_choice |-> NoAgent, tool_calls |-> <<>>,
     raw_response |-> "", has_error |-> FALSE, error_message |-> None,
     refresh |-> "", template_map |-> <<>>, formatter_runs |-> 0,
     reflection_calls |-> <<>>, response_text |-> <<>>, result |-> <<>>]

Init ==
    /\ template_ids = <<>>
    /\ conversations = <<>>
    /\ client_refs = <<>>
    /\ req = [r \in Requests |-> IdleRequest]
    /\ rt_message = <<>> /\ rt_agent = NoAgent
    /\ sb_message = <<>> /\ sb_pass = 0 /\ sb_out = <<>> /\ sb_made = <<>>
    /\ tool_run = <<>> /\ fn_run = <<>>
    /\ active_runs = <<>> /\ responds = <<>> /\ store = <<>>

\* lines 471-504: the call up to `await agent.run(...)`
Start(r) ==
    /\ req[r].pc = "idle"
    /\ IF r = 1 THEN TRUE ELSE req[r - 1].pc # "idle"
    /\ \E inp \in RequestInputs :
        LET conversation_id == IF inp.conversation_id \in {None, ""} THEN GeneratedId(r)
                               ELSE inp.conversation_id
            mapping == IF conversation_id \in DOMAIN template_ids
                       THEN template_ids[conversation_id] ELSE <<>>
            prepared == Lookup(PreparedInputs, <<inp, mapping>>, Prepared(inp, mapping))
        IN  /\ req' = [req EXCEPT ![r] =
                    [@ EXCEPT !.pc = "agent", !.message = prepared.message,
                              !.supplied_id = inp.conversation_id,
                              !.conversation_id = conversation_id,
                              !.files = inp.files,
                              !.full_message = prepared.full_message,
                              !.agent_choice = prepared.agent_choice]]
            /\ conversations' =
                    IF conversation_id \in DOMAIN conversations THEN conversations
                    ELSE conversations @@ (conversation_id :> <<>>)
    /\ UNCHANGED <<template_ids, client_refs, routerVars, substVars, tool_run, fn_run, chatVars>>

\* lines 617-640: both turns are stored and the result is returned
RecordAndReturn(r, q) ==
    /\ conversations' =
            [conversations EXCEPT ![q.conversation_id] =
                StoreConversation(@, q.message, q.response_text, q.tool_calls)]
    /\ req' = [req EXCEPT ![r] =
            [q EXCEPT !.pc = "done",
                      !.result = NormalResult(q.response_text, q.conversation_id,
                                              q.tool_calls, q.agent_choice, q.files)]]

\* a handler that lets the exception out: the call ends without a result
ReturnError_escapes(r, q, e) ==
    /\ req' = [req EXCEPT ![r] = [q EXCEPT !.pc = "raised"]]
    /\ UNCHANGED conversations

\* lines 642-652: the exception e is turned into a result, nothing is stored
ReturnError(r, q, e) ==
    /\ req' = [req EXCEPT ![r] =
            [q EXCEPT !.pc = "done", !.result = ErrorResult(q.conversation_id, e)]]
    /\ UNCHANGED conversations

\* the call has the locals of q and the text of its response
WithResponse(q, text) ==
    [q EXCEPT !.response_text = Lookup(StoredResponses, text, CodePoints(text))]

\* lines 504-568: agent.run ends; the tool calls are extracted, a tool error
\* is answered at once, a template call starts the fetch from the backend,
\* any other success starts the formatter
AgentDone(r) ==
    /\ req[r].pc = "agent"
    /\ \E a \in AgentAnswers(req[r].agent_choice, req[r].full_message) :
        IF a.kind = "raise"
        THEN ReturnError(r, req[r], a.e) /\ UNCHANGED <<template_ids, client_refs>>
        ELSE
        LET tool_calls == extract_tool_calls(a.messages)
            raw_response == extract_response(a.messages)
            check == Lookup(CheckedToolErrors, raw_response, CheckToolError(raw_response))
            error_prefix == Lookup(ErrorPrefixes, req[r].message,
                                   ErrorPrefix(Text(req[r].message)))
            q == [req[r] EXCEPT !.tool_calls = tool_calls]
        IN  IF Len(tool_calls) = 0
            THEN /\ RecordAndReturn(r, WithResponse(q, extract_response(a.messages)))
                 /\ UNCHANGED <<template_ids, client_refs>>
            ELSE IF check.has_error
            THEN /\ RecordAndReturn(r,
                        WithResponse([q EXCEPT !.raw_response = raw_response,
                                               !.has_error = TRUE,
                                               !.error_message = check.error_message],
                                     error_prefix \o check.error_message))
                 /\ UNCHANGED <<template_ids, client_refs>>
            ELSE IF is_template_call(tool_calls)
            THEN /\ req' = [req EXCEPT ![r] =
                        [q EXCEPT !.pc = "fetch", !.raw_response = raw_response]]
                 /\ template_ids' =
                        IF q.conversation_id \in DOMAIN template_ids THEN template_ids
                        ELSE template_ids @@ (q.conversation_id :> <<>>)
                 /\ UNCHANGED <<conversations, client_refs>>
            ELSE /\ req' = [req EXCEPT ![r] =
                        [q EXCEPT !.pc = "format", !.raw_response = raw_response,
                                  !.formatter_runs = @ + 1]]
                 /\ UNCHANGED <<template_ids, conversations, client_refs>>
    /\ UNCHANGED <<routerVars, substVars, tool_run, fn_run, chatVars>>

\* a client that files every dict it is handed under the first conversation
\* it heard of
update_template_mappings_first_key(held, conversation_id, mappings) ==
    IF DOMAIN held = {} THEN (conversation_id :> mappings)
    ELSE [c \in DOMAIN held |-> mappings]

\* WeSignMCPClient.update_template_mappings: the object handed over is kept
\* under the id of the conversation, in place of the one kept before
update_template_mappings(held, conversation_id, mappings) ==
    [c \in DOMAIN held \cup {conversation_id} |->
        IF c = conversation_id THEN mappings ELSE held[c]]

\* lines 697-717 and 570-604: the backend answers; a dict that is not empty
\* is merged into the conversation's and the conversation's dict (line 708:
\* self.template_ids[conversation_id], the object itself) is handed to the tool
\* client; then the formatter is started
FetchDone(r) ==
    /\ req[r].pc = "fetch"
    /\ \E b \in BackendAnswers :
        LET template_map == fetch_template_data_from_backend(b)
            c == req[r].conversation_id
        IN  /\ template_ids' =
                    [template_ids EXCEPT ![c] = StoreTemplateMap(@, template_map)]
            /\ client_refs' = IF Len(template_map) > 0
                              THEN update_template_mappings(client_refs, c, c)
                              ELSE client_refs
            /\ req' = [req EXCEPT ![r] =
                    [@ EXCEPT !.pc = "format", !.refresh = RefreshOutcome(b),
                              !.template_map = template_map,
                              !.formatter_runs = @ + 1]]
    /\ UNCHANGED <<conversations, routerVars, substVars, tool_run, fn_run, chatVars>>

\* self.agents after initialize (lines 75-83)
agents == {"document", "signing", "template", "contact", "admin", "formatter"}

\* a reflection step that is run by the agent the request was routed to
formatter_agent_routed(agent) == agent

\* lines 596-599: the agent that runs the reflection step
formatter_agent(agent) == IF "formatter" \in agents THEN "formatter" ELSE agent

\* lines 601-640: formatter_agent.run ends; its text is the response (the
\* formatter agent has no tools; another agent runs as in line 504)
FormatDone(r) ==
    /\ req[r].pc = "format"
    /\ \E f \in (IF formatter_agent(req[r].agent_choice) = "formatter"
                 THEN FormatterAnswers(req[r].raw_response)
                 ELSE AgentAnswers(formatter_agent(req[r].agent_choice),
                                   req[r].raw_response)) :
        IF f.kind = "raise"
        THEN ReturnError(r, req[r], f.e)
        ELSE RecordAndReturn(r,
                WithResponse([req[r] EXCEPT !.reflection_calls =
                                                extract_tool_calls(f.messages)],
                             extract_response(f.messages)))
    /\ UNCHANGED <<template_ids, client_refs, routerVars, substVars, tool_run, fn_run, chatVars>>

\* lines 504, 565 and 601: the caller cancels the task while it waits at an
\* await; CancelledError is no Exception, so line 642 does not catch it: the
\* call ends without a result, its locals are gone and nothing is stored (the
\* message and the conversation id stay to tell which call it was)
Cancel(r) ==
    /\ req[r].pc \in {"agent", "fetch", "format"}
    /\ req' = [req EXCEPT ![r] =
            [IdleRequest EXCEPT !.pc = "cancelled", !.message = req[r].message,
                                !.supplied_id = req[r].supplied_id,
                                !.conversation_id = req[r].conversation_id]]
    /\ UNCHANGED <<template_ids, conversations, client_refs, routerVars, substVars, tool_run, fn_run, chatVars>>

Next ==
    \E r \in Requests :
        Start(r) \/ AgentDone(r) \/ FetchDone(r) \/ FormatDone(r) \/ Cancel(r)

Spec == Init /\ [][Next]_vars

(***************************************************************************)
(* Claims about the refresh of a conversation's mapping                    *)
(***************************************************************************)
\* the calls whose refresh ends in this step, for conversation c
Refreshing(c) ==
    {r \in Requests : /\ req[r].pc = "fetch" /\ req'[r].pc # "fetch"
                      /\ req[r].conversation_id = c}

\* the id a dict gives a name, None for a name that is no key
IdOf(d, n) == IF n \in DictKeys(d) THEN DictGet(d, n) ELSE None

\* C6: a refresh merges into the mapping of its conversation: in every step
\* every conversation with a mapping keeps it and every key stays a key; after
\* a refresh each name it returned maps to the id it returned and every other
\* name keeps its id; a step that ends no refresh leaves the mapping alone.
C6_RefreshMerges ==
    [][\A c \in DOMAIN template_ids :
          /\ c \in DOMAIN template_ids'
          /\ DictKeys(template_ids[c]) \subseteq DictKeys(template_ids'[c])
          /\ \A r \in Refreshing(c) :
                LET returned == req'[r].template_map
                IN  /\ \A n \in DictKeys(returned) :
                          IdOf(template_ids'[c], n) = IdOf(returned, n)
                    /\ \A n \in DictKeys(template_ids'[c]) \ DictKeys(returned) :
                          IdOf(template_ids'[c], n) = IdOf(template_ids[c], n)
          /\ Refreshing(c) = {} => template_ids'[c] = template_ids[c]
      ]_vars

\* a mapping made by two refreshes: the first put 1234 and NDA, the second
\* returned NDA alone with another id
C6_Witness ==
    /\ "c1" \in DOMAIN template_ids
    /\ template_ids["c1"] = <<Entry("1234", "1234-ab"), Entry("NDA", "9f-01")>>

\* C7: a refresh that fails yields the empty mapping, leaves the mapping of
\* every conversation as it was, and the call goes on to the formatter: the
\* failure does not end the request.
C7_FailedRefreshNonFatal ==
    [][\A r \in Requests :
          (/\ req[r].pc = "fetch" /\ req'[r].pc # "fetch"
           /\ req'[r].refresh = "failed")
          => /\ req'[r].template_map = <<>>
             /\ template_ids' = template_ids
             /\ client_refs' = client_refs
             /\ req'[r].pc = "format"
             /\ req'[r].formatter_runs = 1
      ]_vars

\* a call whose refresh failed while its conversation had cached entries, and
\* which returned the formatter's text and stored its two turns
C7_Witness ==
    \E r \in Requests :
        /\ req[r].pc = "done" /\ req[r].refresh = "failed"
        /\ Len(template_ids[req[r].conversation_id]) > 0
        /\ "error" \notin DOMAIN req[r].result.metadata
        /\ Text(req[r].result.response) = "Here is what I found."
        /\ Len(conversations[req[r].conversation_id]) >= 2

(***************************************************************************)
(* Claims about tool failures                                              *)
(***************************************************************************)
Returned(r) == req[r].pc = "done"

\* the tool outcome of the call was classified Failure
Failure(r) == Returned(r) /\ req[r].has_error

\* C8: a call whose tool outcome is a Failure never runs the formatter, and
\* its response is the prefix in the language of the message followed by the
\* error message of the outcome, which is the error field of a tool output
\* that has one.
C8_FailureBypassesFormatter ==
    \A r \in Requests :
        Failure(r) =>
            /\ req[r].formatter_runs = 0
            /\ Text(req[r].result.response) =
                    (IF detect_hebrew(Text(req[r].message)) THEN "שגיאה: " ELSE "Error: ")
                        \o req[r].error_message
            /\ req[r].raw_response = RawText.ErrorDenied =>
                    req[r].error_message = "permission denied"

\* a Hebrew message answered with the Hebrew prefix and the error field
C8_Witness ==
    \E r \in Requests :
        /\ Failure(r)
        /\ Text(req[r].message) = "תבנית NDA"
        /\ Text(req[r].result.response) = "שגיאה: permission denied"

\* the statuses of a record that tell a failure
FailureStatuses == {"failed", "error"}

\* C9: a call whose tool outcome is a Failure returns, and stores in the
\* assistant turn, tool call records that carry a failure status.
C9_FailureStatusRecorded ==
    \A r \in Requests :
        Failure(r) =>
            /\ \A i \in 1..Len(req[r].result.tool_calls) :
                    req[r].result.tool_calls[i].result \in FailureStatuses
            /\ \A k \in 1..Len(conversations[req[r].conversation_id]) :
                    LET turn == conversations[req[r].conversation_id][k]
                    IN  (turn.role = "assistant" /\ turn.content = req[r].result.response)
                        => \A i \in 1..Len(turn.tool_calls) :
                                turn.tool_calls[i].result \in FailureStatuses

(***************************************************************************)
(* Claims about the history of a conversation                              *)
(***************************************************************************)
\* the calls made against conversation c, in the order they were made
CallsOf(c) == {r \in Requests : req[r].pc # "idle" /\ req[r].conversation_id = c}

\* the number of a call among the calls of its conversation
RankIn(c, r) == Cardinality({p \in CallsOf(c) : p <= r})

\* C10: when the N calls made against a conversation have all returned, its
\* history has 2N turns, and turns 2k-1 and 2k are the user and the assistant
\* turn of the k-th call, whatever the outcome of the calls.
C10_TwoTurnsPerCall ==
    \A c \in DOMAIN conversations :
        (\A r \in CallsOf(c) : Returned(r)) =>
            LET history == get_conversation_history(c)
            IN  /\ Len(history) = 2 * Cardinality(CallsOf(c))
                /\ \A r \in CallsOf(c) :
                      LET k == RankIn(c, r)
                      IN  /\ history[2 * k - 1].role = "user"
                          /\ history[2 * k - 1].content = req[r].message
                          /\ history[2 * k].role = "assistant"
                          /\ history[2 * k].content = req[r].result.response

(***************************************************************************)
(* The tool client: one request of the model for a tool, from               *)
(* ForcedToolModelClient.create over tool_wrapper and execute_tool to the   *)
(* check of the outcome and the record of the call in process_message       *)
(***************************************************************************)
\* ForcedToolModelClient.create: the tool_choice handed to the parent's create
create(tools, tool_choice) ==
    IF Len(tools) > 0 /\ tool_choice = "auto" THEN "required" ELSE tool_choice

\* WeSignMCPClient.template_ids as the orchestrator can have filled it: the
\* conversations in the order of their first update, each with its dict
ClientMappings ==
    { <<>>,
      <<Entry("A", <<Entry("NDA", "9f-01")>>)>>,
      <<Entry("B", <<Entry("NDA", "7c-22")>>)>>,
      <<Entry("A", <<Entry("NDA", "9f-01")>>), Entry("B", <<Entry("NDA", "7c-22")>>)>>,
      <<Entry("B", <<Entry("NDA", "7c-22")>>), Entry("A", <<Entry("NDA", "9f-01")>>)>>,
      <<Entry("A", <<Entry("Lease", "5d-40")>>), Entry("B", <<Entry("NDA", "7c-22")>>)>>,
      <<Entry("A", <<Entry("NDA-v2", "3b-77")>>)>> }

\* the tools of the server with the `required` list of their inputSchema
InputSchemas ==
    ("wesign_use_template" :> <<"templateId">>)
    @@ ("wesign_send_simple_document" :> <<"documentId">>)
    @@ ("wesign_list_documents" :> <<>>)

\* the FunctionCalls the model can ask for
ModelCalls ==
    { [name |-> "wesign_use_template", arguments |-> <<Entry("templateId", "NDA")>>],
      [name |-> "wesign_use_template", arguments |-> <<Entry("templateId", "9f-01")>>],
      [name |-> "wesign_use_template", arguments |-> <<Entry("templateId", "NDA-v2")>>],
      [name |-> "wesign_send_simple_document", arguments |-> <<>>],
      [name |-> "wesign_list_documents", arguments |-> <<Entry("templateId", "NDA")>>] }

\* an execute_tool that looks up the templateId of a call of any tool
ReplaceTemplateName_any_tool(tool_name, arguments, client_template_ids) ==
    LET template_name_or_id == DictGet(arguments, "templateId")
        holders == {i \in 1..Len(client_template_ids) :
                        template_name_or_id \in DictKeys(client_template_ids[i].id)}
        first == CHOOSE i \in holders : \A j \in holders : i <= j
        found_guid == IF holders = {} THEN None
                      ELSE DictGet(client_template_ids[first].id, template_name_or_id)
    IN  IF /\ "templateId" \in DictKeys(arguments)
           /\ ~Contains(template_name_or_id, "-")
           /\ found_guid # None /\ found_guid # ""
        THEN DictSet(arguments, "templateId", found_guid)
        ELSE arguments

\* lines 97-125 of execute_tool: the arguments as they are posted
ReplaceTemplateName(tool_name, arguments, client_template_ids) ==
    LET named_tools == {"wesign_use_template", "wesign_send_simple_document",
                        "wesign_get_template", "wesign_update_template_fields"}
        template_name_or_id == DictGet(arguments, "templateId")
        holders == {i \in 1..Len(client_template_ids) :
                        template_name_or_id \in DictKeys(client_template_ids[i].id)}
        first == CHOOSE i \in holders : \A j \in holders : i <= j
        found_guid == IF holders = {} THEN None
                      ELSE DictGet(client_template_ids[first].id, template_name_or_id)
    IN  IF /\ tool_name \in named_tools
           /\ "templateId" \in DictKeys(arguments)
           /\ ~Contains(template_name_or_id, "-")
           /\ found_guid # None /\ found_guid # ""
        THEN DictSet(arguments, "templateId", found_guid)
        ELSE arguments

\* what the POST to /execute can give: the JSON body of a 2xx reply (the keys
\* it has, and their values), a reply with an error status, or an exception
\* of the HTTP client; data is a Python value, held as its kind and what str()
\* makes of it
ServerReplies ==
    { [kind |-> "json", keys |-> {"success", "data"}, success |-> TRUE, error |-> "",
       data |-> [kind |-> "dict", text |-> RawText.Templates], status |-> 200],
      [kind |-> "json", keys |-> {"success", "data"}, success |-> TRUE, error |-> "",
       data |-> [kind |-> "str", text |-> RawText.Plain], status |-> 200],
      [kind |-> "json", keys |-> {"success", "data"}, success |-> TRUE, error |-> "",
       data |-> [kind |-> "str", text |-> "Sent to 2 signers, no errors"], status |-> 200],
      [kind |-> "json", keys |-> {"success", "error"}, success |-> FALSE,
       error |-> "permission denied", data |-> [kind |-> "None", text |-> "None"],
       status |-> 200],
      [kind |-> "json", keys |-> {"success"}, success |-> FALSE, error |-> "",
       data |-> [kind |-> "None", text |-> "None"], status |-> 200],
      [kind |-> "http_error", keys |-> {}, success |-> FALSE, error |-> "Bad Request",
       data |-> [kind |-> "None", text |-> "None"], status |-> 400],
      [kind |-> "exception", keys |-> {}, success |-> FALSE, error |-> "All connection attempts failed",
       data |-> [kind |-> "None", text |-> "None"], status |-> 0] }

\* lines 134-151 of execute_tool: the value returned for a reply (the replies
\* above that report success carry data)
execute_tool_returns(reply) ==
    LET ErrorDict(error_msg) ==
            [kind |-> "dict", text |-> "{'error': '" \o error_msg \o "', 'success': False}"]
    IN  IF reply.kind = "http_error"
        THEN ErrorDict("HTTP " \o ToString(reply.status) \o ": " \o reply.error)
        ELSE IF reply.kind = "exception" THEN ErrorDict(reply.error)
        ELSE IF ~("success" \in reply.keys /\ reply.success)
        THEN ErrorDict(IF "error" \in reply.keys THEN reply.error ELSE "Unknown error")
        ELSE reply.data

\* what the server answered when the orchestrator was initialized: the reply
\* to GET /health and the reply to GET /tools (an exception of the HTTP
\* client, an error status, or a JSON body)
ServiceStates ==
    [ health : { [kind |-> "exception", state |-> ""],
                 [kind |-> "http_error", state |-> ""],
                 [kind |-> "json", state |-> "degraded"],
                 [kind |-> "json", state |-> "ok"] },
      listing : { [kind |-> "exception", success |-> FALSE, tools |-> <<>>],
                  [kind |-> "json", success |-> FALSE, tools |-> <<>>],
                  [kind |-> "json", success |-> TRUE,
                   tools |-> <<"wesign_use_template", "wesign_send_simple_document",
                               "wesign_list_documents">>] } ]

\* WeSignMCPClient.check_health
check_health(response) == response.kind = "json" /\ response.state = "ok"

\* WeSignMCPClient.fetch_tools
fetch_tools(response) ==
    IF response.kind # "json" THEN <<>>
    ELSE IF ~response.success THEN <<>>
    ELSE response.tools

\* a creation of the tools that does not look at the health of the server
create_wesign_tools_unchecked(service) == fetch_tools(service.listing)

\* create_wesign_tools: the tools of the client, one FunctionTool for each
\* tool of the server
create_wesign_tools(service) ==
    IF ~check_health(service.health) THEN <<>> ELSE fetch_tools(service.listing)

\* _init_mcp_servers: mcp_tools["wesign"]; none of the calls above lets an
\* error of the server out, and any other exception leaves the list empty too
init_mcp_servers(service) == create_wesign_tools(service)

\* a request made in conversation c after the initialization, with the dicts
\* the client holds, the tools of the agent and the tool_choice of the caller
\* of create
ToolsInit ==
    /\ \E c \in {"A", "B"}, m \in ClientMappings, service \in ServiceStates,
          tool_choice \in {"auto", "required", "none"} :
            tool_run = [pc |-> "create", conversation |-> c, client_template_ids |-> m,
                        service |-> service, tools |-> init_mcp_servers(service),
                        tool_choice |-> tool_choice, forwarded |-> None,
                        call |-> [name |-> "", arguments |-> <<>>], posted |-> <<>>,
                        reply |-> [kind |-> "none"], messages |-> <<>>,
                        tool_calls |-> <<>>, has_error |-> FALSE]
    /\ template_ids = <<>>
    /\ conversations = <<>> /\ client_refs = <<>> /\ req = <<>>
    /\ rt_message = <<>> /\ rt_agent = NoAgent
    /\ sb_message = <<>> /\ sb_pass = 0 /\ sb_out = <<>> /\ sb_made = <<>>
    /\ fn_run = <<>>
    /\ active_runs = <<>> /\ responds = <<>> /\ store = <<>>

\* ForcedToolModelClient.create and the answer of the model: a tool call when
\* the forwarded tool_choice is "required", text when there are no tools or it
\* is "none", one or the other when it is "auto"
Create ==
    /\ tool_run.pc = "create"
    /\ LET forwarded == create(tool_run.tools, tool_run.tool_choice)
           run == [tool_run EXCEPT !.forwarded = forwarded]
       IN  \/ /\ Len(tool_run.tools) > 0 /\ forwarded \in {"required", "auto"}
              /\ \E call \in ModelCalls :
                    tool_run' = [run EXCEPT !.pc = "wrapper", !.call = call]
           \/ /\ Len(tool_run.tools) = 0 \/ forwarded \in {"none", "auto"}
              /\ tool_run' = [run EXCEPT !.pc = "extract",
                                         !.messages = TextRun("use template NDA",
                                                              "How can I help?")]
    /\ UNCHANGED <<template_ids, orchVars, routerVars, substVars, fn_run, chatVars>>

\* tool_wrapper, lines 220-223: a call that lacks a required parameter raises
\* before anything is sent, and the run ends with the text of the error
ToolWrapper ==
    /\ tool_run.pc = "wrapper"
    /\ LET required_fields == InputSchemas[tool_run.call.name]
           missing == {i \in 1..Len(required_fields) :
                        required_fields[i] \notin DictKeys(tool_run.call.arguments)}
           field == required_fields[CHOOSE i \in missing : \A j \in missing : i <= j]
       IN  IF missing # {}
           THEN tool_run' = [tool_run EXCEPT
                    !.pc = "extract",
                    !.messages = ToolRun("use template NDA", <<tool_run.call>>,
                                         "Error: Missing required parameter: " \o field)]
           ELSE tool_run' = [tool_run EXCEPT !.pc = "execute"]
    /\ UNCHANGED <<template_ids, orchVars, routerVars, substVars, fn_run, chatVars>>

\* execute_tool: the name of a template is replaced, the call is posted, and
\* what the server replies is returned and printed by FunctionTool
ExecuteTool ==
    /\ tool_run.pc = "execute"
    /\ \E reply \in ServerReplies :
        tool_run' = [tool_run EXCEPT
            !.pc = "extract",
            !.posted = Append(@, [tool |-> tool_run.call.name,
                                  parameters |-> ReplaceTemplateName(tool_run.call.name,
                                        tool_run.call.arguments,
                                        tool_run.client_template_ids)]),
            !.reply = reply,
            !.messages = ToolRun("use template NDA", <<tool_run.call>>,
                                 execute_tool_returns(reply).text)]
    /\ UNCHANGED <<template_ids, orchVars, routerVars, substVars, fn_run, chatVars>>

\* lines 507-552 of process_message: the records of the tool calls and the
\* check of the raw response
ExtractToolCalls ==
    /\ tool_run.pc = "extract"
    /\ LET tool_calls == extract_tool_calls(tool_run.messages)
       IN  tool_run' = [tool_run EXCEPT
                !.pc = "done",
                !.tool_calls = tool_calls,
                !.has_error = IF Len(tool_calls) = 0 THEN FALSE
                              ELSE CheckToolError(extract_response(tool_run.messages)).has_error]
    /\ UNCHANGED <<template_ids, orchVars, routerVars, substVars, fn_run, chatVars>>

ToolsNext == Create \/ ToolWrapper \/ ExecuteTool \/ ExtractToolCalls

SpecTools == ToolsInit /\ [][ToolsNext]_vars

(***************************************************************************)
(* Single calls: the choice of the language of a response (process_message *)
(* lines 478-491 and 555-573), the reflection step (lines 575-607) and the  *)
(* fields of field_positions.py                                            *)
(***************************************************************************)
STANDARD_FIELD_WIDTH == 200
STANDARD_FIELD_HEIGHT == 50

FIELD_POSITION_COORDS ==
    ("top-left" :> [x |-> 50, y |-> 100])
    @@ ("center-left" :> [x |-> 50, y |-> 370])
    @@ ("bottom-left" :> [x |-> 50, y |-> 650])
    @@ ("top-right" :> [x |-> 350, y |-> 100])
    @@ ("center-right" :> [x |-> 350, y |-> 370])
    @@ ("bottom-right" :> [x |-> 350, y |-> 650])

\* create_field with the default width and height: [raised, value], raised
\* for the ValueError
create_field(position, page_number, field_type) ==
    LET normalized == StrReplace(StrReplace(lower(position), "_", "-"), " ", "-")
    IN  IF normalized \notin DOMAIN FIELD_POSITION_COORDS
        THEN [raised |-> TRUE, value |-> <<>>]
        ELSE [raised |-> FALSE,
              value |-> [x |-> FIELD_POSITION_COORDS[normalized].x,
                         y |-> FIELD_POSITION_COORDS[normalized].y,
                         width |-> STANDARD_FIELD_WIDTH,
                         height |-> STANDARD_FIELD_HEIGHT,
                         pageNumber |-> page_number,
                         fieldType |-> field_type]]

\* a list of fields whose pages are numbered from 0
create_fields_for_pages_from_zero(position, num_pages, field_type) ==
    LET fields == [page \in 1..num_pages |-> create_field(position, page - 1, field_type)]
    IN  IF \E page \in 1..num_pages : fields[page].raised
        THEN [raised |-> TRUE, value |-> <<>>]
        ELSE [raised |-> FALSE, value |-> [page \in 1..num_pages |-> fields[page].value]]

\* create_fields_for_pages: the list of the fields of the pages
\* 1..num_pages; a ValueError of create_field ends the comprehension
create_fields_for_pages(position, num_pages, field_type) ==
    LET fields == [page \in 1..num_pages |-> create_field(position, page, field_type)]
    IN  IF \E page \in 1..num_pages : fields[page].raised
        THEN [raised |-> TRUE, value |-> <<>>]
        ELSE [raised |-> FALSE, value |-> [page \in 1..num_pages |-> fields[page].value]]

\* the position names handed to create_fields_for_pages
PositionInputs ==
    {"top-left", "center-left", "bottom-left", "top-right", "center-right",
     "bottom-right", "Bottom Right", "TOP_LEFT", "middle", "bottom", ""}

\* the messages, files and mappings of the calls whose language and agent
\* are chosen (upload_file of main.py names the path of a file
\* <tmp>/wesign-assistant/file-<timestamp>-<name>)
LanguageInputs ==
    [ message : { "list my documents", "use template NDA", "תבנית NDA",
                  "NDA" \o CharAt(Chars.marks, 1) \o "1",
                  "NDA" \o CharAt(Chars.marks, 2) \o "1" },
      files : { <<>>, <<[fileName |-> "חוזה.pdf", filePath |-> "/tmp/f1"]>>,
                <<[fileName |-> "scan.png",
                   filePath |-> "/tmp/wesign-assistant/file-1.5-scan.png"]>> },
      mapping : { <<>>, <<Entry("NDA", "9f-01")>>, <<Entry("NDA", "אב-01")>> } ]

\* what the formatter can answer to a prompt whose raw data has `items`
\* items: a text that lists some of them and tells of some more (the model
\* writes the text; the prompts give it examples and no rule for the count)
FormatterTexts(items) == [listed : 0..items, more : 0..items]

\* a call of a function with its arguments, before it runs (the texts of the
\* arguments are held in code points)
CallsInit ==
    /\ \/ \E items \in 0..MaxItems :
            fn_run = [fn |-> "reflection", pc |-> "called", items |-> items,
                      response_text |-> None]
       \/ \E position \in PositionInputs, num_pages \in 0..MaxPages, field_type \in {1, 3} :
            fn_run = [fn |-> "create_fields_for_pages", pc |-> "called",
                      position |-> position, num_pages |-> num_pages,
                      field_type |-> field_type, raised |-> FALSE, value |-> <<>>]
       \/ \E inp \in LanguageInputs :
            fn_run = [fn |-> "process_message", pc |-> "called",
                      message |-> CodePoints(inp.message),
                      files |-> [i \in 1..Len(inp.files) |->
                                    [fileName |-> CodePoints(inp.files[i].fileName),
                                     filePath |-> inp.files[i].filePath]],
                      mapping |-> [i \in 1..Len(inp.mapping) |->
                                    Entry(inp.mapping[i].name,
                                          CodePoints(inp.mapping[i].id))],
                      full_message |-> <<>>, agent_choice |-> NoAgent,
                      error_prefix |-> <<>>, language_instruction |-> <<>>]
    /\ template_ids = <<>>
    /\ conversations = <<>> /\ client_refs = <<>> /\ req = <<>>
    /\ rt_message = <<>> /\ rt_agent = NoAgent
    /\ sb_message = <<>> /\ sb_pass = 0 /\ sb_out = <<>> /\ sb_made = <<>>
    /\ tool_run = <<>>
    /\ active_runs = <<>> /\ responds = <<>> /\ store = <<>>

\* lines 478-491 and 555-573 of process_message: the message handed to the
\* agent, the agent chosen for it, and the prefix of an error and the
\* instruction to the formatter
SelectLanguage ==
    /\ fn_run.fn = "process_message" /\ fn_run.pc = "called"
    /\ LET message == Text(fn_run.message)
           files == [i \in 1..Len(fn_run.files) |->
                        [fileName |-> Text(fn_run.files[i].fileName),
                         filePath |-> fn_run.files[i].filePath]]
           mapping == [i \in 1..Len(fn_run.mapping) |->
                        Entry(fn_run.mapping[i].name, Text(fn_run.mapping[i].id))]
           prepared == Prepared([message |-> message, files |-> files], mapping)
       IN  fn_run' = [fn_run EXCEPT
                !.pc = "returned",
                !.full_message = prepared.full_message,
                !.agent_choice = prepared.agent_choice,
                !.error_prefix = CodePoints(ErrorPrefix(message)),
                !.language_instruction = CodePoints(language_instruction(message))]
    /\ UNCHANGED <<template_ids, orchVars, routerVars, substVars, tool_run, chatVars>>

\* lines 575-607 of process_message: the prompt with the raw data is handed
\* to the formatter, and the text of its answer is the response
Reflect ==
    /\ fn_run.fn = "reflection" /\ fn_run.pc = "called"
    /\ \E text \in FormatterTexts(fn_run.items) :
            fn_run' = [fn_run EXCEPT !.pc = "returned", !.response_text = text]
    /\ UNCHANGED <<template_ids, orchVars, routerVars, substVars, tool_run, chatVars>>

\* a call of create_fields_for_pages returns or raises
CreateFieldsForPages ==
    /\ fn_run.fn = "create_fields_for_pages" /\ fn_run.pc = "called"
    /\ LET out == create_fields_for_pages(fn_run.position, fn_run.num_pages,
                                          fn_run.field_type)
       IN  fn_run' = [fn_run EXCEPT !.pc = IF out.raised THEN "raised" ELSE "returned",
                                    !.raised = out.raised, !.value = out.value]
    /\ UNCHANGED <<template_ids, orchVars, routerVars, substVars, tool_run, chatVars>>

CallsNext == SelectLanguage \/ Reflect \/ CreateFieldsForPages

SpecCalls == CallsInit /\ [][CallsNext]_vars

(***************************************************************************)
(* The ChatKit server and its store: MaxCalls calls of                     *)
(* WeSignChatKitServer.respond, each an asynchronous generator that runs    *)
(* when its consumer asks for the next event, and the operations of         *)
(* InMemoryStore (none of them waits for anything: each runs as one step)   *)
(***************************************************************************)
RespondCalls == 1..MaxCalls

ThreadIds == {"t1", "t2"}

\* lines 116-136: the events of a response, the item added and the item done
ResponseEvents(message_id, thread_id, response_text) ==
    LET assistant_item == [id |-> message_id, thread_id |-> thread_id,
                           text |-> response_text]
    IN  << [type |-> "thread.item.added", item |-> assistant_item],
           [type |-> "thread.item.done", item |-> assistant_item] >>

\* an except branch that yields the error event before the error item
ErrorEvents_error_first(error_message_id, thread_id, e) ==
    LET error_item == [id |-> error_message_id, thread_id |-> thread_id,
                       text |-> "I encountered an error: " \o e \o ". Please try again."]
    IN  << [type |-> "error", error |-> e, code |-> "orchestrator_error"],
           [type |-> "thread.item.added", item |-> error_item],
           [type |-> "thread.item.done", item |-> error_item] >>

\* lines 151-175: the events of the except branch
ErrorEvents(error_message_id, thread_id, e) ==
    LET error_item == [id |-> error_message_id, thread_id |-> thread_id,
                       text |-> "I encountered an error: " \o e \o ". Please try again."]
    IN  << [type |-> "thread.item.added", item |-> error_item],
           [type |-> "thread.item.done", item |-> error_item],
           [type |-> "error", error |-> e, code |-> "orchestrator_error"] >>

\* a respond that tracks a run before it looks at the message
RespondStart_tracks_first(k) ==
    /\ responds[k].pc = "created"
    /\ LET run_id == "run-" \o ToString(k) IN
       /\ active_runs' = active_runs @@
                (run_id :> [thread_id |-> responds[k].thread_id, status |-> "in_progress"])
       /\ responds' = [responds EXCEPT ![k] =
                [@ EXCEPT !.pc = IF responds[k].input_user_message = None
                                 THEN "ended" ELSE "awaiting",
                          !.run_id = run_id]]
    /\ UNCHANGED <<template_ids, orchVars, routerVars, substVars, tool_run, fn_run, store>>

\* lines 73-92 and 95-114: the consumer asks for the first event and the
\* generator starts; with no message it ends at once, else it makes the entry
\* of its run (run_id is a uuid4: a new id for each call) and waits for
\* process_message
RespondStart(k) ==
    /\ responds[k].pc = "created"
    /\ IF responds[k].input_user_message = None
       THEN /\ responds' = [responds EXCEPT ![k] = [@ EXCEPT !.pc = "ended"]]
            /\ UNCHANGED active_runs
       ELSE LET run_id == "run-" \o ToString(k) IN
            /\ active_runs' = active_runs @@
                    (run_id :> [thread_id |-> responds[k].thread_id,
                                status |-> "in_progress"])
            /\ responds' = [responds EXCEPT ![k] =
                    [@ EXCEPT !.pc = "awaiting", !.run_id = run_id]]
    /\ UNCHANGED <<template_ids, orchVars, routerVars, substVars, tool_run, fn_run, store>>

\* lines 104-133 and 144-169: process_message returns and the item of the
\* response is made and yielded as added; or an exception is raised in the try
\* block (no orchestrator was given to the server, or no context to the
\* call), the run is marked failed and the error item is yielded as added
ProcessMessageDone(k) ==
    /\ responds[k].pc = "awaiting"
    /\ \/ \E response_text \in {"Here is what I found.", "Error: permission denied"} :
            LET events == ResponseEvents("msg-" \o ToString(k), responds[k].thread_id,
                                         response_text)
            IN  /\ responds' = [responds EXCEPT ![k] =
                        [@ EXCEPT !.pc = "yielded", !.events = <<Head(events)>>,
                                  !.pending = Tail(events)]]
                /\ UNCHANGED active_runs
       \/ \E e \in {"'NoneType' object has no attribute 'process_message'",
                    "'NoneType' object has no attribute 'get'"} :
            LET events == ErrorEvents("err-" \o ToString(k), responds[k].thread_id, e)
            IN  /\ active_runs' = [active_runs EXCEPT ![responds[k].run_id] =
                        [thread_id |-> @.thread_id, status |-> "failed", error |-> e]]
                /\ responds' = [responds EXCEPT ![k] =
                        [@ EXCEPT !.pc = "yielded", !.branch = "except",
                                  !.events = <<Head(events)>>, !.pending = Tail(events)]]
    /\ UNCHANGED <<template_ids, orchVars, routerVars, substVars, tool_run, fn_run, store>>

\* the consumer asks for the next event: the generator goes on from its
\* yield to the next one; after the last yield of the try block it marks the
\* run completed (lines 138-140) and ends, after the last yield of the except
\* block it ends
Pull(k) ==
    /\ responds[k].pc = "yielded"
    /\ IF Len(responds[k].pending) > 0
       THEN /\ responds' = [responds EXCEPT ![k] =
                    [@ EXCEPT !.events = Append(@, Head(responds[k].pending)),
                              !.pending = Tail(@)]]
            /\ UNCHANGED active_runs
       ELSE /\ responds' = [responds EXCEPT ![k] = [@ EXCEPT !.pc = "ended"]]
            /\ active_runs' =
                    IF responds[k].branch = "try"
                    THEN [active_runs EXCEPT ![responds[k].run_id] =
                            [thread_id |-> @.thread_id, status |-> "completed"]]
                    ELSE active_runs
    /\ UNCHANGED <<template_ids, orchVars, routerVars, substVars, tool_run, fn_run, store>>

\* the consumer stops before the end: it closes the generator at a yield, or
\* is cancelled while the generator waits; GeneratorExit and CancelledError are
\* no Exception, so line 144 does not catch them and the entry of the run stays
\* as it is
Abandon(k) ==
    /\ responds[k].pc \in {"awaiting", "yielded"}
    /\ responds' = [responds EXCEPT ![k] = [@ EXCEPT !.pc = "closed", !.pending = <<>>]]
    /\ UNCHANGED <<template_ids, orchVars, routerVars, substVars, tool_run, fn_run,
                   active_runs, store>>

\* a create_thread that leaves the message list of an existing thread alone
create_thread_keeps_messages(s, thread_id, metadata) ==
    [s EXCEPT
        !.threads = [t \in DOMAIN s.threads \cup {thread_id} |->
                        IF t = thread_id
                        THEN [id |-> thread_id, metadata |-> metadata, message_count |-> 0]
                        ELSE s.threads[t]],
        !.messages = [t \in DOMAIN s.messages \cup {thread_id} |->
                        IF t \in DOMAIN s.messages THEN s.messages[t] ELSE <<>>]]

\* InMemoryStore.create_thread: the store with the new thread and its empty
\* message list (metadata: the dict handed over, the empty one for None)
create_thread(s, thread_id, metadata) ==
    [s EXCEPT
        !.threads = [t \in DOMAIN s.threads \cup {thread_id} |->
                        IF t = thread_id
                        THEN [id |-> thread_id, metadata |-> metadata, message_count |-> 0]
                        ELSE s.threads[t]],
        !.messages = [t \in DOMAIN s.messages \cup {thread_id} |->
                        IF t = thread_id THEN <<>> ELSE s.messages[t]]]

\* InMemoryStore.get_messages (before: <<>> for None, <<t>> for a timestamp):
\* messages[-limit:] starts at index -limit, counted from the end when it is
\* negative and from the start when it is not (-0 is 0), and is reversed
get_messages(messages, thread_id, limit, before) ==
    IF thread_id \notin DOMAIN messages THEN <<>>
    ELSE LET kept == IF Len(before) > 0
                     THEN SelectSeq(messages[thread_id],
                                    LAMBDA m : m.timestamp < before[1])
                     ELSE messages[thread_id]
             start == IF -limit < 0
                      THEN (IF Len(kept) - limit > 0 THEN Len(kept) - limit ELSE 0)
                      ELSE (IF -limit < Len(kept) THEN -limit ELSE Len(kept))
             cut == SubSeq(kept, start + 1, Len(kept))
         IN  [i \in 1..Len(cut) |-> cut[Len(cut) - i + 1]]

\* the calls of respond before their generators are started, each with its
\* thread and its message (None on a retry), or the store after __init__
\* (utcnow: the clock, as many ticks as timestamps were read from it)
ChatInit ==
    /\ \/ /\ responds \in [RespondCalls ->
                [pc : {"created"}, thread_id : ThreadIds,
                 input_user_message : {None, "list my documents"},
                 run_id : {None}, branch : {"try"}, events : {<<>>}, pending : {<<>>}]]
          /\ active_runs = <<>> /\ store = <<>> /\ fn_run = <<>>
       \/ /\ store = [threads |-> <<>>, messages |-> <<>>, utcnow |-> 0]
          /\ fn_run = [fn |-> "__init__"]
          /\ active_runs = <<>> /\ responds = <<>>
    /\ template_ids = <<>>
    /\ conversations = <<>> /\ client_refs = <<>> /\ req = <<>>
    /\ rt_message = <<>> /\ rt_agent = NoAgent
    /\ sb_message = <<>> /\ sb_pass = 0 /\ sb_out = <<>> /\ sb_made = <<>>
    /\ tool_run = <<>>

\* a call of create_thread
CreateThread ==
    /\ "threads" \in DOMAIN store
    /\ \E thread_id \in ThreadIds, metadata \in {<<>>, [title |-> "NDA"]} :
        /\ store' = create_thread(store, thread_id, metadata)
        /\ fn_run' = [fn |-> "create_thread", thread_id |-> thread_id,
                      value |-> store'.threads[thread_id]]
    /\ UNCHANGED <<template_ids, orchVars, routerVars, substVars, tool_run,
                   active_runs, responds>>

\* a call of update_thread: metadata.update(metadata) on a thread that exists
UpdateThread ==
    /\ "threads" \in DOMAIN store
    /\ \E thread_id \in ThreadIds, metadata \in {[title |-> "Lease"], [owner |-> "u1"]} :
        /\ store' = IF thread_id \in DOMAIN store.threads
                    THEN [store EXCEPT !.threads[thread_id].metadata = metadata @@ @]
                    ELSE store
        /\ fn_run' = [fn |-> "update_thread", thread_id |-> thread_id,
                      value |-> IF thread_id \in DOMAIN store.threads
                                THEN <<store'.threads[thread_id]>> ELSE <<>>]
    /\ UNCHANGED <<template_ids, orchVars, routerVars, substVars, tool_run,
                   active_runs, responds>>

\* a call of add_message: the thread is created when it has no message
\* list, and the message is stored with the time of the clock
AddMessage ==
    /\ "threads" \in DOMAIN store
    /\ store.utcnow < MaxMessages
    /\ \E thread_id \in ThreadIds :
        LET s == IF thread_id \notin DOMAIN store.messages
                 THEN create_thread(store, thread_id, <<>>) ELSE store
            message_with_timestamp ==
                [id |-> "m", timestamp |-> store.utcnow + 1, thread_id |-> thread_id]
        IN  /\ store' = [s EXCEPT
                    !.messages[thread_id] = Append(@, message_with_timestamp),
                    !.threads[thread_id].message_count = @ + 1,
                    !.utcnow = @ + 1]
            /\ fn_run' = [fn |-> "add_message", thread_id |-> thread_id,
                          value |-> message_with_timestamp]
    /\ UNCHANGED <<template_ids, orchVars, routerVars, substVars, tool_run,
                   active_runs, responds>>

\* a call of get_messages
GetMessages ==
    /\ "threads" \in DOMAIN store
    /\ \E thread_id \in ThreadIds, limit \in 0..MaxLimit,
          before \in {<<>>} \cup {<<t>> : t \in 1..(MaxMessages + 1)} :
        fn_run' = [fn |-> "get_messages", thread_id |-> thread_id, limit |-> limit,
                   before |-> before,
                   value |-> get_messages(store.messages, thread_id, limit, before)]
    /\ UNCHANGED <<template_ids, orchVars, routerVars, substVars, tool_run, chatVars>>

\* a call of clear
Clear ==
    /\ "threads" \in DOMAIN store
    /\ store' = [store EXCEPT !.threads = <<>>, !.messages = <<>>]
    /\ fn_run' = [fn |-> "clear"]
    /\ UNCHANGED <<template_ids, orchVars, routerVars, substVars, tool_run,
                   active_runs, responds>>

ChatNext ==
    \/ \E k \in DOMAIN responds :
            RespondStart(k) \/ ProcessMessageDone(k) \/ Pull(k) \/ Abandon(k)
    \/ CreateThread \/ UpdateThread \/ AddMessage \/ GetMessages \/ Clear

SpecChat == ChatInit /\ [][ChatNext]_vars

(***************************************************************************)
(* Claims about the life of a request                                      *)
(***************************************************************************)
Cancelled(r) == req[r].pc = "cancelled"

\* the call went through lines 617-640
Recorded(r) == Returned(r) /\ "error" \notin DOMAIN req[r].result.metadata

\* C11: in every state the log of a conversation is made of pairs, the user
\* turn of a call followed by the assistant turn of the same call, one pair
\* for each call that returned on the normal path and none for a call that is
\* running, was cancelled or ended in the exception branch.
C11_TurnsInPairs ==
    \A c \in DOMAIN conversations :
        LET log == conversations[c]
            recorded == {r \in CallsOf(c) : Recorded(r)}
        IN  /\ Len(log) = 2 * Cardinality(recorded)
            /\ \A k \in 1..Len(log) :
                  IF k % 2 = 1
                  THEN /\ log[k].role = "user"
                       /\ k + 1 <= Len(log)
                       /\ \E r \in recorded :
                             /\ log[k].content = req[r].message
                             /\ log[k + 1].content = req[r].result.response
                             /\ log[k + 1].tool_calls = req[r].result.tool_calls
                  ELSE log[k].role = "assistant"

\* a conversation with a call that was cancelled and the two turns of another
C11_Witness ==
    \E r1, r2 \in Requests :
        /\ Cancelled(r1) /\ Recorded(r2)
        /\ req[r1].conversation_id = req[r2].conversation_id
        /\ Len(conversations[req[r2].conversation_id]) = 2

\* the call has substituted (line 487) and has not yet stored its turns (line
\* 618) or ended otherwise
InFlight(r) == req[r].pc \in {"agent", "fetch", "format"}

\* C12: the calls of one conversation are serialized: while a call is between
\* its substitution and its recording, no other call of the same conversation
\* has substituted, refreshed or recorded, so no two calls of one conversation
\* are in flight together.
C12_SerializedPerConversation ==
    \A r1, r2 \in Requests :
        (r1 # r2 /\ InFlight(r1) /\ InFlight(r2))
            => req[r1].conversation_id # req[r2].conversation_id

(***************************************************************************)
(* Claims about the tool client                                            *)
(***************************************************************************)
\* C13: the mapping of a conversation is used only by that conversation: the
\* arguments posted for a call made in one conversation are the ones the
\* client would post if it held the mapping of that conversation alone,
\* whatever is cached for the other conversations.
C13_MappingIsolated ==
    LET own == SelectSeq(tool_run.client_template_ids,
                         LAMBDA e : e.name = tool_run.conversation)
    IN  \A i \in 1..Len(tool_run.posted) :
            tool_run.posted[i].parameters =
                ReplaceTemplateName(tool_run.call.name, tool_run.call.arguments, own)

(***************************************************************************)
(* Claims about the end of a request.  The awaits of process_message end:   *)
(* the HTTP clients and the model clients have timeouts for each call, so   *)
(* a call that waits is answered or fails, unless its caller cancels it.    *)
(***************************************************************************)
SpecLive ==
    Spec /\ \A r \in Requests :
                WF_vars(AgentDone(r)) /\ WF_vars(FetchDone(r)) /\ WF_vars(FormatDone(r))

\* the dict a call returned has the four keys of a response, with the id of
\* its conversation and a list of tool call records
WellFormed(r) ==
    /\ Returned(r)
    /\ DOMAIN req[r].result = {"response", "conversation_id", "tool_calls", "metadata"}
    /\ req[r].result.conversation_id = req[r].conversation_id
    /\ DOMAIN req[r].result.tool_calls = 1..Len(req[r].result.tool_calls)

\* C14 as stated: every call that was started eventually returns a well-formed
\* output, whatever stage raises; there is no other end of a call.
C14_AlwaysReturns ==
    \A r \in Requests : InFlight(r) ~> WellFormed(r)

\* C14 as amended: every call that was started and that its caller does not
\* cancel eventually returns a well-formed output, whatever stage raises; a
\* cancelled call ends with CancelledError and returns nothing.
C14_ReturnsUnlessCancelled ==
    \A r \in Requests : InFlight(r) ~> (WellFormed(r) \/ Cancelled(r))

\* a call whose agent run raised and that returned, and a call that ended
\* cancelled
C14_Witness ==
    \E r1, r2 \in Requests :
        /\ WellFormed(r1)
        /\ "error" \in DOMAIN req[r1].result.metadata
        /\ req[r1].result.metadata.error = "Connection error."
        /\ Cancelled(r2)

\* C15: when a stage of a call raises, the call still returns a dict with the
\* four keys of a response: its response is a message that explains the
\* failure (it quotes the error) and its list of tool calls is empty.
C15_FailureKeepsShape ==
    [][\A r \in Requests :
        (InFlight(r) /\ req'[r].pc = "done" /\ conversations' = conversations)
            => /\ DOMAIN req'[r].result =
                    {"response", "conversation_id", "tool_calls", "metadata"}
               /\ req'[r].result.conversation_id = req[r].conversation_id
               /\ req'[r].result.tool_calls = <<>>
               /\ "error" \in DOMAIN req'[r].result.metadata
               /\ LET text == "I encountered an error: "
                                \o req'[r].result.metadata.error \o ". Please try again."
                  IN  req'[r].result.response =
                            Lookup(StoredResponses, text, CodePoints(text))]_vars

\* a call whose tool ran and whose formatter raised: it returned the error
\* dict, with no tool calls in it
C15_Witness ==
    \E r \in Requests :
        /\ Returned(r)
        /\ "error" \in DOMAIN req[r].result.metadata
        /\ req[r].result.metadata.error = "Rate limit reached."
        /\ Len(req[r].tool_calls) > 0
        /\ req[r].result.tool_calls = <<>>

\* C16: a call passes its stages in one order.  Its position moves only from
\* the start to the agent run, from there to the fetch or the formatter or
\* the end, from the fetch to the formatter, from the formatter to the end;
\* the agent is chosen for the message as substituted (with its file
\* context) and the agent runs after that; the formatter starts only when
\* the tool outcome is known and is no failure; and a call that returns its
\* answer appended both turns in the step in which it returns.
C16_StagesInOrder ==
    [][\A r \in Requests :
        LET from == req[r].pc
            to == req'[r].pc
            c == req'[r].conversation_id
        IN  /\ from # to =>
                <<from, to>> \in {<<"idle", "agent">>, <<"agent", "fetch">>,
                                  <<"agent", "format">>, <<"fetch", "format">>,
                                  <<"agent", "done">>, <<"format", "done">>,
                                  <<"agent", "cancelled">>, <<"fetch", "cancelled">>,
                                  <<"format", "cancelled">>}
            /\ (from = "idle" /\ to = "agent") =>
                /\ \E p \in PreparedInputs :
                        /\ p[1][2] = (IF c \in DOMAIN template_ids
                                      THEN template_ids[c] ELSE <<>>)
                        /\ p[1][1].files = req'[r].files
                        /\ p[2].message = req'[r].message
                        /\ p[2].full_message = req'[r].full_message
                /\ req'[r].agent_choice =
                        Lookup(RoutedTexts, req'[r].full_message,
                               select_agent(Text(req'[r].full_message)))
            /\ (from # to /\ to \in {"fetch", "format"}) =>
                /\ Len(req'[r].tool_calls) > 0
                /\ ~Lookup(CheckedToolErrors, req'[r].raw_response,
                           CheckToolError(req'[r].raw_response)).has_error
            /\ (from # to /\ to = "done" /\ "error" \notin DOMAIN req'[r].result.metadata) =>
                conversations'[c] =
                    conversations[c] \o
                        << [role |-> "user", content |-> req'[r].message],
                           [role |-> "assistant", content |-> req'[r].result.response,
                            tool_calls |-> req'[r].result.tool_calls] >>]_vars

\* a call that went through every stage: its message was substituted, the
\* agent chosen for the substituted text called a tool, the formatter ran,
\* and it returned with its turns recorded
C16_Witness ==
    \E r \in Requests :
        /\ Recorded(r)
        /\ req[r].full_message # req[r].message
        /\ req[r].files = <<>>
        /\ Len(req[r].tool_calls) > 0
        /\ req[r].formatter_runs > 0

\* C17: a call whose tool succeeded and whose formatter was started returns
\* an answer also when the formatter raises or gives nothing: its response is
\* then the raw tool result as plain text, and its turns are recorded.
C17_FormatterFallback ==
    \A r \in Requests :
        (Returned(r) /\ req[r].formatter_runs > 0) =>
            /\ Recorded(r)
            /\ req[r].result.response \in
                    {req[r].response_text, CodePoints(req[r].raw_response)}
            /\ \E i \in 1..Len(conversations[req[r].conversation_id]) :
                    /\ conversations[req[r].conversation_id][i].role = "assistant"
                    /\ conversations[req[r].conversation_id][i].content
                            = req[r].result.response

\* C18: every tool call record of a run stands for a call that was
\* dispatched: the records name, one for one, the tools of the calls posted
\* to the server, and a call rejected before it was sent leaves no record.
C18_RecordsAreDispatched ==
    tool_run.pc = "done" =>
        /\ Len(tool_run.tool_calls) = Len(tool_run.posted)
        /\ \A i \in 1..Len(tool_run.tool_calls) :
                tool_run.tool_calls[i].tool = tool_run.posted[i].tool

\* C19: whenever create is called with a list of tools that is not empty, the
\* tool_choice it hands on is "required", whatever tool_choice it was given.
C19_ToolChoiceForced ==
    (tool_run.pc # "create" /\ Len(tool_run.tools) > 0) => tool_run.forwarded = "required"

\* C20: the outcome of a tool call follows the structured response: when the
\* server answered with a JSON body, the outcome is a failure exactly when
\* the body has an error field or success = false, and a success otherwise;
\* the words of the text decide nothing for a structured response.
C20_OutcomeFromStructure ==
    (tool_run.pc = "done" /\ tool_run.reply.kind = "json") =>
        (tool_run.has_error <=>
            ("error" \in tool_run.reply.keys \/ ~tool_run.reply.success))

(***************************************************************************)
(* Claims about the side effects of a request                              *)
(***************************************************************************)
\* C21: a call whose tool outcome is a success and whose tool calls include
\* a template tool starts the refresh of its conversation's mapping when its
\* agent run ends, and has it behind it when it returns; a call whose outcome
\* is a failure, or that called no tool, starts no refresh, returns without
\* one, and the step that ends its agent run leaves every mapping as it was.
C21_RefreshOnTemplateSuccess ==
    [][\A r \in Requests :
        LET calls == req'[r].tool_calls
            success_with_template ==
                /\ Len(calls) > 0
                /\ ~req'[r].has_error
                /\ \E i \in 1..Len(calls) : calls[i].tool \in template_tools
        IN  /\ (req[r].pc = "agent" /\ req'[r].pc \in {"fetch", "format", "done"}) =>
                /\ req'[r].pc = "fetch" <=> success_with_template
                /\ req'[r].pc # "fetch" => template_ids' = template_ids
            /\ (req[r].pc # "done" /\ req'[r].pc = "done") =>
                (req'[r].refresh # "" <=> success_with_template)
      ]_vars

\* a call that listed the templates, refreshed the mapping and returned, and
\* a call with a failed tool that returned without a refresh
C21_Witness ==
    \E r1, r2 \in Requests :
        /\ Recorded(r1) /\ req[r1].refresh = "ok"
        /\ is_template_call(req[r1].tool_calls)
        /\ Recorded(r2) /\ req[r2].has_error /\ req[r2].refresh = ""

\* C22: a miss passes the message through: when the conversation has no
\* mapping, or an empty one, or no pattern of a cached name matches the
\* message, the pass returns the message as it was and records no
\* replacement; and no pass changes a mapping.
C22_MissPassesThrough ==
    [][/\ template_ids' = template_ids
       /\ sb_pass' = sb_pass + 1 =>
            LET input == PassInput(sb_pass + 1)
                miss ==
                    \/ SubstConv \notin DOMAIN template_ids
                    \/ \A j \in 1..Len(template_ids[SubstConv]) :
                         \A k \in 1..NumPatterns :
                            FirstMatch(Patterns(template_ids[SubstConv][j].name)[k],
                                       Text(input), 1)[1] = 0
            IN  miss => /\ sb_out'[sb_pass'] = input
                        /\ sb_made'[sb_pass'] = <<>>
      ]_vars

\* a pass over "template NDA" with a mapping that knows 1234 alone
C22_Witness ==
    /\ sb_pass >= 1
    /\ SubstConv \in DOMAIN template_ids
    /\ template_ids[SubstConv] = <<Entry("1234", "1234-ab")>>
    /\ sb_message = CodePoints("template NDA")
    /\ sb_out[1] = sb_message
    /\ sb_made[1] = <<>>

(***************************************************************************)
(* Claims about the initialization                                         *)
(***************************************************************************)
\* C23: when the server is unreachable or unhealthy at initialization, the
\* initialization ends with no tools, and a later request is still answered:
\* the model is asked, nothing is posted to the server, and the run ends with
\* the text of the model, an empty list of tool calls and no error.
C23_ServesWithoutTools ==
    (tool_run.service.health.kind # "json" \/ tool_run.service.health.state # "ok") =>
        /\ tool_run.tools = <<>>
        /\ tool_run.pc \in {"create", "extract", "done"}
        /\ tool_run.posted = <<>>
        /\ tool_run.pc = "done" =>
            /\ tool_run.tool_calls = <<>>
            /\ ~tool_run.has_error
            /\ extract_response(tool_run.messages) = "How can I help?"

\* a request that ended after an initialization that found the server
\* unhealthy although its list of tools could be read
C23_Witness ==
    /\ tool_run.service.health = [kind |-> "json", state |-> "degraded"]
    /\ tool_run.service.listing.success
    /\ tool_run.tools = <<>>
    /\ tool_run.pc = "done"

(***************************************************************************)
(* Claims about the reflection step                                        *)
(***************************************************************************)
\* C25: the reflection step calls no tool: a step that ends the run of the
\* formatter with a response has no tool call in the messages of that run,
\* and the tool calls the request returns are those of the run of its agent.
C25_FormatterCallsNoTool ==
    [][\A r \in Requests :
        (req[r].pc = "format" /\ req'[r].pc = "done"
            /\ "error" \notin DOMAIN req'[r].result.metadata) =>
                /\ req'[r].reflection_calls = <<>>
                /\ req'[r].result.tool_calls = req[r].tool_calls
      ]_vars

\* a request routed to an agent with tools, whose tool call succeeded and
\* whose response is the text of the formatter
C25_Witness ==
    \E r \in Requests :
        /\ Recorded(r)
        /\ req[r].formatter_runs > 0
        /\ req[r].agent_choice \in {"document", "template"}
        /\ Len(req[r].tool_calls) > 0
        /\ req[r].response_text = CodePoints("Here is what I found.")

(***************************************************************************)
(* Claims about the language of a response                                 *)
(***************************************************************************)
\* C24: the language of a response is chosen from the message of the user
\* alone: the prefix of an error and the instruction to the formatter are the
\* Hebrew ones exactly when the message has a code point of the Hebrew block
\* U+0590..U+05FF (1424..1535), whatever the files and the mapping are.
C24_LanguageFromMessage ==
    (fn_run.fn = "process_message" /\ fn_run.pc = "returned") =>
        LET hebrew == \E i \in 1..Len(fn_run.message) : fn_run.message[i] \in 1424..1535
        IN  /\ fn_run.error_prefix =
                    CodePoints(IF hebrew THEN "שגיאה: " ELSE "Error: ")
            /\ fn_run.language_instruction =
                    CodePoints(IF hebrew THEN "עליך לענות בעברית"
                               ELSE "You must respond in English")

\* C26: the formatted response lists at most 10 items of the raw data, and
\* when the raw data has more than 10 items it tells of the items - 10 that
\* are left.
C26_AtMostTenListed ==
    (fn_run.fn = "reflection" /\ fn_run.pc = "returned") =>
        /\ fn_run.response_text.listed <= 10
        /\ fn_run.items > 10 => fn_run.response_text.more = fn_run.items - 10

(***************************************************************************)
(* Claims about the admin agent                                            *)
(***************************************************************************)
\* C27: a request routed to admin calls no tool: the step that ends the run
\* of its agent returns at once, without a fetch and without the formatter,
\* with an empty list of tool calls, and no step of the request changes the
\* mapping of its conversation.
C27_AdminCallsNoTool ==
    [][\A r \in Requests :
        (req[r].pc # "idle" /\ req[r].agent_choice = "admin") =>
            /\ req'[r].pc \in {"agent", "done", "cancelled"}
            /\ req'[r].tool_calls = <<>>
            /\ req'[r].formatter_runs = 0
            /\ req'[r].refresh = ""
            /\ req'[r].pc = "done" => req'[r].result.tool_calls = <<>>
            /\ (req'[r] # req[r] /\ req[r].conversation_id \in DOMAIN template_ids) =>
                    template_ids'[req[r].conversation_id]
                        = template_ids[req[r].conversation_id]
            /\ (req'[r] # req[r] /\ req[r].conversation_id \notin DOMAIN template_ids) =>
                    req[r].conversation_id \notin DOMAIN template_ids'
      ]_vars

\* a request routed to admin that returned the text of its agent, in a
\* conversation that has a mapping
C27_Witness ==
    \E r \in Requests :
        /\ Recorded(r)
        /\ req[r].agent_choice = "admin"
        /\ req[r].response_text = CodePoints("How can I help?")
        /\ req[r].conversation_id \in DOMAIN template_ids
        /\ Len(template_ids[req[r].conversation_id]) > 0

(***************************************************************************)
(* Claims about the history of a conversation                              *)
(***************************************************************************)
\* C28: the history of a conversation only grows at its end: in every step
\* each conversation that exists stays, and its history before the step is a
\* prefix of its history after the step (so the history at any earlier point
\* is a prefix of the history at every later point).
C28_HistoryAppendOnly ==
    [][\A c \in DOMAIN conversations :
        /\ c \in DOMAIN conversations'
        /\ Len(conversations'[c]) >= Len(conversations[c])
        /\ SubSeq(conversations'[c], 1, Len(conversations[c])) = conversations[c]
      ]_vars

\* a conversation with the turns of two calls, the later ones after the
\* earlier ones
C28_Witness ==
    \E c \in DOMAIN conversations :
        /\ Len(conversations[c]) = 4
        /\ req[1].conversation_id = c /\ Recorded(1)
        /\ conversations[c][1].content = req[1].message
        /\ conversations[c][3].content = req[2].message

(***************************************************************************)
(* Claims about the tool client                                            *)
(***************************************************************************)
\* C29: execute_tool gives every outcome of a call the same tagged shape: the
\* value it returns is a dict with the key success; after an error status,
\* an exception of the HTTP client or a reply whose success is false or
\* missing, success is False and the dict has the key error; after a reply
\* that reports success, success is True and the dict has the key data.
C29_UniformShape ==
    tool_run.reply.kind # "none" =>
        LET parsed == literal_eval(extract_response(tool_run.messages))
            succeeded == /\ tool_run.reply.kind = "json"
                         /\ "success" \in tool_run.reply.keys
                         /\ tool_run.reply.success
        IN  /\ parsed.kind = "dict"
            /\ "success" \in DOMAIN parsed.val
            /\ IF succeeded
               THEN parsed.val["success"] = TRUE /\ "data" \in DOMAIN parsed.val
               ELSE parsed.val["success"] = FALSE /\ "error" \in DOMAIN parsed.val

(***************************************************************************)
(* Claims about the fields                                                 *)
(***************************************************************************)
\* C30: create_fields_for_pages(position, n) with the name of a position
\* returns n fields, the i-th with pageNumber i, all with the coordinates of
\* the position and the standard width and height; with a name that is no
\* position it raises ValueError and returns no field.
C30_FieldsForPages ==
    (fn_run.fn = "create_fields_for_pages" /\ fn_run.pc # "called") =>
        LET name == StrReplace(StrReplace(lower(fn_run.position), "_", "-"), " ", "-")
            coords == CASE name = "top-left" -> <<50, 100>>
                        [] name = "center-left" -> <<50, 370>>
                        [] name = "bottom-left" -> <<50, 650>>
                        [] name = "top-right" -> <<350, 100>>
                        [] name = "center-right" -> <<350, 370>>
                        [] name = "bottom-right" -> <<350, 650>>
                        [] OTHER -> <<>>
        IN  IF coords # <<>>
            THEN /\ fn_run.pc = "returned"
                 /\ Len(fn_run.value) = fn_run.num_pages
                 /\ \A i \in 1..fn_run.num_pages :
                        fn_run.value[i] = [x |-> coords[1], y |-> coords[2],
                                           width |-> 200, height |-> 50,
                                           pageNumber |-> i,
                                           fieldType |-> fn_run.field_type]
            ELSE fn_run.pc = "raised" /\ fn_run.value = <<>>

\* C30 as amended: with the name of a position the call returns n fields, the
\* i-th with pageNumber i, all with the coordinates of the position and the
\* standard width and height; with a name that is no position it returns no
\* field, and it raises ValueError when n >= 1: with n = 0 no field is
\* created, the name is not looked at and the empty list is returned.
C30_FieldsUnlessNoPage ==
    (fn_run.fn = "create_fields_for_pages" /\ fn_run.pc # "called") =>
        LET name == StrReplace(StrReplace(lower(fn_run.position), "_", "-"), " ", "-")
            coords == CASE name = "top-left" -> <<50, 100>>
                        [] name = "center-left" -> <<50, 370>>
                        [] name = "bottom-left" -> <<50, 650>>
                        [] name = "top-right" -> <<350, 100>>
                        [] name = "center-right" -> <<350, 370>>
                        [] name = "bottom-right" -> <<350, 650>>
                        [] OTHER -> <<>>
        IN  IF coords # <<>>
            THEN /\ fn_run.pc = "returned"
                 /\ Len(fn_run.value) = fn_run.num_pages
                 /\ \A i \in 1..fn_run.num_pages :
                        fn_run.value[i] = [x |-> coords[1], y |-> coords[2],
                                           width |-> 200, height |-> 50,
                                           pageNumber |-> i,
                                           fieldType |-> fn_run.field_type]
            ELSE /\ fn_run.pc = "raised" <=> fn_run.num_pages >= 1
                 /\ fn_run.value = <<>>

\* a call with a name that is written another way, for three pages
C30_Witness ==
    /\ fn_run.fn = "create_fields_for_pages" /\ fn_run.pc = "returned"
    /\ fn_run.position = "Bottom Right" /\ fn_run.num_pages = 3
    /\ Len(fn_run.value) = 3
    /\ fn_run.value[3].pageNumber = 3 /\ fn_run.value[3].x = 350

(***************************************************************************)
(* Claims about what the choice of the agent depends on                    *)
(***************************************************************************)
\* C31: the agent chosen for a request depends on the text of the message
\* and on the mapping of the conversation alone: every call with the same
\* message and the same mapping is routed to the same agent, whatever files
\* (names or paths) are attached to it.
C31_RoutedByMessageAndMapping ==
    (fn_run.fn = "process_message" /\ fn_run.pc = "returned") =>
        LET message == Text(fn_run.message)
            mapping == [i \in 1..Len(fn_run.mapping) |->
                            Entry(fn_run.mapping[i].name, Text(fn_run.mapping[i].id))]
        IN  \A other \in LanguageInputs :
                (other.message = message /\ other.mapping = mapping) =>
                    Prepared([message |-> other.message, files |-> other.files],
                             other.mapping).agent_choice = fn_run.agent_choice

(***************************************************************************)
(* Claims about the rewriting of template names                            *)
(***************************************************************************)
\* C32: execute_tool rewrites the templateId of a call only when the tool is
\* one of the four tools that take a template, the value has no '-' and the
\* value is a key of a cached mapping, and then it posts the identifier mapped
\* to it; in every other case the arguments are posted as they came (a value
\* with a '-' is never rewritten, an unknown name is sent as it is).
C32_RewritesKnownNamesOnly ==
    \A i \in 1..Len(tool_run.posted) :
        LET arguments == tool_run.call.arguments
            value == DictGet(arguments, "templateId")
            cached == tool_run.client_template_ids
            holders == {k \in 1..Len(cached) : value \in DictKeys(cached[k].id)}
            rewritten == /\ tool_run.call.name \in
                                {"wesign_use_template", "wesign_send_simple_document",
                                 "wesign_get_template", "wesign_update_template_fields"}
                         /\ "templateId" \in DictKeys(arguments)
                         /\ ~Contains(value, "-")
                         /\ holders # {}
        IN  /\ tool_run.posted[i].tool = tool_run.call.name
            /\ IF rewritten
               THEN \E k \in holders :
                        tool_run.posted[i].parameters =
                            DictSet(arguments, "templateId", DictGet(cached[k].id, value))
               ELSE tool_run.posted[i].parameters = arguments

\* a call of wesign_use_template with the name NDA was posted with the
\* identifier cached for it
C32_Witness ==
    /\ tool_run.pc = "done"
    /\ Len(tool_run.posted) = 1
    /\ tool_run.call.name = "wesign_use_template"
    /\ DictGet(tool_run.call.arguments, "templateId") = "NDA"
    /\ DictGet(tool_run.posted[1].parameters, "templateId") = "9f-01"

\* C33: a name in a message is rewritten to an identifier only from what an
\* earlier request of the same conversation has refreshed: a mapping gets a
\* name only in the step that ends the refresh of a request of that
\* conversation whose tool outcome is a success with a template tool call and
\* whose refresh returned that name; a request whose message is rewritten has
\* such a request of its conversation before it and the text handed on holds
\* an identifier of that mapping (so the first request of a conversation is
\* never rewritten); and the text of a request stays as it was handed on,
\* also when its own refresh changes the mapping.  (The text before any
\* substitution is the one prepared for the same message with no mapping.)
C33_RewrittenFromEarlierRefresh ==
    [][/\ \A c \in DOMAIN template_ids' :
            LET before == IF c \in DOMAIN template_ids THEN template_ids[c] ELSE <<>>
                gained == {e \in {template_ids'[c][i] : i \in 1..Len(template_ids'[c])} :
                                \A i \in 1..Len(before) : before[i] # e}
            IN  gained # {} =>
                    \E r \in Requests :
                        /\ req[r].pc = "fetch" /\ req'[r].pc = "format"
                        /\ req[r].conversation_id = c
                        /\ ~req[r].has_error
                        /\ \E i \in 1..Len(req[r].tool_calls) :
                                req[r].tool_calls[i].tool \in template_tools
                        /\ \A e \in gained :
                                \E i \in 1..Len(req'[r].template_map) :
                                    req'[r].template_map[i] = e
       /\ \A r \in Requests :
            /\ (req[r].pc = "idle" /\ req'[r].pc = "agent"
                /\ \E p \in PreparedInputs :
                        /\ p[2].message = req'[r].message /\ p[1][2] = <<>>
                        /\ p[2].full_message # req'[r].full_message) =>
                    LET c == req'[r].conversation_id IN
                    /\ c \in DOMAIN template_ids
                    /\ \E earlier \in 1..(r - 1) :
                            /\ req[earlier].conversation_id = c
                            /\ req[earlier].pc \in {"format", "done", "cancelled"}
                    /\ \E i \in 1..Len(template_ids[c]) :
                            LET id == CodePoints(template_ids[c][i].id)
                                text == req'[r].full_message
                            IN  \E at \in 1..(Len(text) - Len(id) + 1) :
                                    SubSeq(text, at, at + Len(id) - 1) = id
            /\ (req[r].pc \in {"agent", "fetch", "format"} /\ req'[r].pc # "cancelled") =>
                    req'[r].full_message = req[r].full_message
      ]_vars

\* the second request of a conversation was handed on rewritten, after the
\* first one listed the templates and refreshed the mapping
C33_Witness ==
    \E r \in Requests \ {1} :
        /\ req[r].pc \in {"agent", "fetch", "format", "done"}
        /\ \E p \in PreparedInputs :
                /\ p[2].message = req[r].message /\ p[1][2] = <<>>
                /\ p[2].full_message # req[r].full_message
        /\ req[1].conversation_id = req[r].conversation_id
        /\ req[1].refresh = "ok" /\ Len(req[1].template_map) > 0

(***************************************************************************)
(* Claims about concurrent requests of one conversation                    *)
(***************************************************************************)
\* C34: the turns of two requests are never interleaved: a step changes the
\* log of a conversation only when one request of that conversation returns
\* on the normal path, and then it puts the user turn and the assistant turn
\* of that one request, next to each other, at the end of the log; so the
\* pairs of the log are in the order in which the requests finished, whatever
\* the order in which they arrived.
C34_PairsInOrderOfFinish ==
    [][\A c \in DOMAIN conversations' :
        LET log == IF c \in DOMAIN conversations THEN conversations[c] ELSE <<>>
            finishing == {r \in Requests :
                            /\ req[r].pc # "done" /\ req'[r].pc = "done"
                            /\ req'[r].conversation_id = c
                            /\ "error" \notin DOMAIN req'[r].result.metadata}
        IN  IF finishing = {} THEN conversations'[c] = log
            ELSE \E r \in finishing :
                    /\ finishing = {r}
                    /\ conversations'[c] =
                            log \o << [role |-> "user", content |-> req'[r].message],
                                      [role |-> "assistant",
                                       content |-> req'[r].result.response,
                                       tool_calls |-> req'[r].result.tool_calls] >>
      ]_vars

\* two requests of one conversation ran together, the second one finished
\* first, and its pair of turns comes first in the log
C34_Witness ==
    /\ Recorded(1) /\ Recorded(2)
    /\ req[1].conversation_id = req[2].conversation_id
    /\ req[1].message # req[2].message
    /\ LET log == conversations[req[1].conversation_id]
       IN  /\ Len(log) = 4
           /\ log[1].role = "user" /\ log[1].content = req[2].message
           /\ log[2].role = "assistant" /\ log[2].content = req[2].result.response
           /\ log[3].role = "user" /\ log[3].content = req[1].message
           /\ log[4].role = "assistant" /\ log[4].content = req[1].result.response

(***************************************************************************)
(* Claims about the id of a conversation                                   *)
(***************************************************************************)
\* C35: the conversation id of a response is the key under which the turns
\* of the request were recorded: the step in which a request returns on the
\* normal path appends its turns to the log of the id its response carries
\* and changes no other log, and a request that returns an error changes no
\* log; when the request supplied an id (anything but None) the response
\* carries that id on both paths, and when it supplied none the response
\* carries a new id, one that no caller supplies and no other request has.
C35_ResponseCarriesKey ==
    [][\A r \in Requests :
        (req[r].pc # "done" /\ req'[r].pc = "done") =>
            LET id == req'[r].result.conversation_id
                turns == << [role |-> "user", content |-> req'[r].message],
                            [role |-> "assistant", content |-> req'[r].result.response,
                             tool_calls |-> req'[r].result.tool_calls] >>
            IN  /\ id \in DOMAIN conversations
                /\ IF "error" \in DOMAIN req'[r].result.metadata
                   THEN conversations' = conversations
                   ELSE conversations' = [conversations EXCEPT ![id] = @ \o turns]
                /\ req'[r].supplied_id # None => id = req'[r].supplied_id
                /\ req'[r].supplied_id = None =>
                        /\ \A inp \in RequestInputs : inp.conversation_id # id
                        /\ \A other \in Requests \ {r} : req[other].conversation_id # id
      ]_vars

\* C35 with what the code takes for an id that was supplied: when the request
\* supplied an id that is not empty the response carries that id on both
\* paths, and when it supplied none, or the empty string, the response
\* carries a new id; the turns are recorded under the id of the response as
\* above.
C35_ResponseCarriesKeyUnlessEmpty ==
    [][\A r \in Requests :
        (req[r].pc # "done" /\ req'[r].pc = "done") =>
            LET id == req'[r].result.conversation_id
                turns == << [role |-> "user", content |-> req'[r].message],
                            [role |-> "assistant", content |-> req'[r].result.response,
                             tool_calls |-> req'[r].result.tool_calls] >>
            IN  /\ id \in DOMAIN conversations
                /\ IF "error" \in DOMAIN req'[r].result.metadata
                   THEN conversations' = conversations
                   ELSE conversations' = [conversations EXCEPT ![id] = @ \o turns]
                /\ req'[r].supplied_id \notin {None, ""} => id = req'[r].supplied_id
                /\ req'[r].supplied_id \in {None, ""} =>
                        /\ \A inp \in RequestInputs : inp.conversation_id # id
                        /\ \A other \in Requests \ {r} : req[other].conversation_id # id
      ]_vars

\* a request that supplied an id and returned an error with that id, and a
\* request that supplied the empty string and has its turns under a new id
C35_Witness ==
    \E r1, r2 \in Requests :
        /\ Returned(r1) /\ "error" \in DOMAIN req[r1].result.metadata
        /\ req[r1].supplied_id = "c1" /\ req[r1].result.conversation_id = "c1"
        /\ Recorded(r2) /\ req[r2].supplied_id = ""
        /\ req[r2].result.conversation_id = GeneratedId(r2)
        /\ Len(conversations[GeneratedId(r2)]) = 2

(***************************************************************************)
(* Claims about the mapping of the tool client                             *)
(***************************************************************************)
\* C36: the mapping of the tool client stays in step with the mapping of the
\* orchestrator: in every state, for every conversation the client holds a
\* mapping for, the orchestrator has a mapping of that conversation and the
\* dict the client holds has the same entries, also after later refreshes.
C36_ClientInStep ==
    \A c \in DOMAIN client_refs :
        /\ c \in DOMAIN template_ids
        /\ client_refs[c] \in DOMAIN template_ids
        /\ LET held == template_ids[client_refs[c]]
           IN  {held[i] : i \in 1..Len(held)}
                    = {template_ids[c][i] : i \in 1..Len(template_ids[c])}

\* the client holds the mapping of a conversation that was refreshed twice,
\* the later refresh giving another id for a name and one more name
C36_Witness ==
    /\ "c1" \in DOMAIN client_refs
    /\ Returned(1) /\ Returned(2)
    /\ Len(template_ids["c1"]) = 2
    /\ \E r \in Requests :
            /\ req[r].conversation_id = "c1" /\ req[r].refresh = "ok"
            /\ Len(req[r].template_map) = 1
            /\ DictGet(template_ids["c1"], "NDA") # DictGet(req[r].template_map, "NDA")

(***************************************************************************)
(* Claims about the ChatKit server and its store                           *)
(***************************************************************************)
\* C37: every call of respond with a message that has started has exactly
\* one entry in active_runs, made with the status in_progress, and once its
\* stream was consumed to the end the status is completed or failed; the
\* status of an entry only changes from in_progress to completed or to
\* failed; a call with no message makes no entry and yields no event
C37_OneRunPerMessage ==
    /\ [](/\ \A k \in DOMAIN responds :
                IF responds[k].input_user_message = None
                THEN responds[k].run_id = None /\ responds[k].events = <<>>
                ELSE /\ responds[k].pc = "created" => responds[k].run_id = None
                     /\ responds[k].pc # "created" =>
                            /\ responds[k].run_id \in DOMAIN active_runs
                            /\ \A j \in DOMAIN responds :
                                    j # k => responds[j].run_id # responds[k].run_id
                     /\ responds[k].pc = "ended" =>
                            active_runs[responds[k].run_id].status \in {"completed", "failed"}
          /\ Cardinality(DOMAIN active_runs) =
                Cardinality({k \in DOMAIN responds : responds[k].run_id # None}))
    /\ [][\A id \in DOMAIN active_runs' :
            IF id \in DOMAIN active_runs
            THEN \/ active_runs'[id].status = active_runs[id].status
                 \/ /\ active_runs[id].status = "in_progress"
                    /\ active_runs'[id].status \in {"completed", "failed"}
            ELSE active_runs'[id].status = "in_progress"]_vars

\* one call without a message has ended, another consumed its stream to the
\* end and its run is completed
C37_Witness ==
    \E k, j \in DOMAIN responds :
        /\ responds[k].input_user_message = None /\ responds[k].pc = "ended"
        /\ responds[j].input_user_message # None /\ responds[j].pc = "ended"
        /\ active_runs[responds[j].run_id].status = "completed"

\* C38: in the events of a call of respond an item-added event is followed
\* at once by the item-done event of the same item (it is never the last
\* event of a stream consumed to its end); a completed run has yielded
\* exactly that pair; an error event is yielded only when the run has failed,
\* as the third and last event, after the pair of the error item
C38_EventsInOrder ==
    \A k \in DOMAIN responds :
        LET events == responds[k].events
            IsPair(i) == /\ events[i].type = "thread.item.added"
                         /\ events[i + 1].type = "thread.item.done"
                         /\ events[i + 1].item = events[i].item
        IN  /\ \A i \in 1..Len(events) :
                /\ events[i].type = "thread.item.added" =>
                        /\ responds[k].pc = "ended" => i < Len(events)
                        /\ i < Len(events) => IsPair(i)
                /\ events[i].type = "thread.item.done" => i > 1 /\ IsPair(i - 1)
                /\ events[i].type = "error" =>
                        /\ active_runs[responds[k].run_id].status = "failed"
                        /\ active_runs[responds[k].run_id].error = events[i].error
                        /\ i = 3 /\ Len(events) = 3 /\ IsPair(1)
                        /\ events[1].item.text =
                            "I encountered an error: " \o events[i].error
                                \o ". Please try again."
            /\ (responds[k].run_id # None
                    /\ active_runs[responds[k].run_id].status = "completed") =>
                        /\ Len(events) = 2 /\ IsPair(1)
                        /\ responds[k].pc = "ended"
            /\ (responds[k].pc = "ended" /\ responds[k].run_id # None
                    /\ active_runs[responds[k].run_id].status = "failed") =>
                        Len(events) = 3 /\ events[3].type = "error"

\* one call has yielded the pair of its response and its run is completed,
\* another has yielded the pair of the error item and the error event
C38_Witness ==
    \E k, j \in DOMAIN responds :
        /\ responds[k].pc = "ended" /\ Len(responds[k].events) = 2
        /\ active_runs[responds[k].run_id].status = "completed"
        /\ responds[j].pc = "ended" /\ Len(responds[j].events) = 3
        /\ responds[j].events[3].type = "error"

\* C39: after any calls of create_thread, add_message, update_thread and
\* clear the threads of the store are the ids that have a message list, and
\* the message_count of every thread is the number of its stored messages;
\* add_message on an id without a message list makes the thread first, and
\* create_thread on an id that exists leaves it with no message and count 0
C39_ThreadsAndMessagesAgree ==
    /\ [](("threads" \in DOMAIN store) =>
            /\ DOMAIN store.threads = DOMAIN store.messages
            /\ \A t \in DOMAIN store.threads :
                /\ store.threads[t].message_count = Len(store.messages[t])
                /\ store.threads[t].id = t
                /\ \A i \in 1..Len(store.messages[t]) :
                        store.messages[t][i].thread_id = t)
    /\ [][("threads" \in DOMAIN store /\ fn_run'.fn \in {"create_thread", "add_message"}) =>
            LET t == fn_run'.thread_id IN
            /\ t \in DOMAIN store'.threads
            /\ fn_run'.fn = "create_thread" =>
                    /\ store'.messages[t] = <<>>
                    /\ store'.threads[t].message_count = 0
            /\ fn_run'.fn = "add_message" =>
                    /\ store'.messages[t] =
                        Append(IF t \in DOMAIN store.messages
                               THEN store.messages[t] ELSE <<>>, fn_run'.value)
                    /\ t \notin DOMAIN store.threads =>
                            store'.threads[t].metadata = <<>>
            /\ \A u \in DOMAIN store.threads \ {t} :
                    /\ u \in DOMAIN store'.threads
                    /\ store'.messages[u] = store.messages[u]
                    /\ store'.threads[u] = store.threads[u]]_vars

\* after two calls of add_message, create_thread has left its thread with
\* no message, while another thread, made by add_message and updated, holds
\* its message
C39_Witness ==
    /\ "threads" \in DOMAIN store
    /\ fn_run.fn = "create_thread"
    /\ store.utcnow = 2
    /\ store.messages[fn_run.thread_id] = <<>>
    /\ \E u \in DOMAIN store.threads :
            /\ Len(store.messages[u]) = 1
            /\ store.threads[u].metadata = [title |-> "Lease"]

\* C40: get_messages(thread, limit, before) returns the min(limit, k) most
\* recent of the k messages of the thread whose timestamp is earlier than
\* before (of all its messages when before is absent), most recent first,
\* for every limit >= 0; for an unknown thread it returns the empty list; it
\* never changes the store
C40_MostRecentUpToLimit ==
    /\ [](("threads" \in DOMAIN store /\ fn_run.fn = "get_messages") =>
            IF fn_run.thread_id \notin DOMAIN store.messages
            THEN fn_run.value = <<>>
            ELSE LET earlier == IF Len(fn_run.before) > 0
                                THEN SelectSeq(store.messages[fn_run.thread_id],
                                        LAMBDA m : m.timestamp < fn_run.before[1])
                                ELSE store.messages[fn_run.thread_id]
                     k == Len(earlier)
                     n == IF fn_run.limit < k THEN fn_run.limit ELSE k
                 IN  fn_run.value = [i \in 1..n |-> earlier[k - i + 1]])
    /\ [][("threads" \in DOMAIN store /\ fn_run'.fn = "get_messages") =>
            store' = store]_vars

=============================================================================
